---- MODULE Spec2Model ----
(***************************************************************************)
(* Helium10 file processor: the weight extractor, the shipping cost        *)
(* resolver, the block filter and the table assembler                      *)
(* (modules/data_processing.py, modules/excel_utils.py,                    *)
(* modules/blocked_items.py), modelled as state machines.                  *)
(*                                                                         *)
(* Text is a sequence of one-character strings.  An optional value         *)
(* (None / NaN in the code) is a sequence of length 0 or 1: None == <<>>,  *)
(* Some(v) == <<v>>.  Money and weights are integers counting hundredths   *)
(* (cents, 0.01 lb); the inputs are chosen so that the code's float        *)
(* arithmetic is exact on them (see Round2).                               *)
(***************************************************************************)
EXTENDS Integers, Sequences, FiniteSets, TLC

VARIABLES
    pc,         \* position of the run being modelled
    title,      \* extract_weight_with_packs: the argument (optional text)
    weight,     \* extract_weight_with_packs: the returned value (optional)
    raised,     \* extract_weight_with_packs: an exception reached the caller
    shipping_legend, \* the band table: None when absent, else Some(sequence of bands)
    shipping_cost,   \* calculate_shipping_cost: the returned value (optional)
    dfs,             \* process_dataframes: the input table (the frames, concatenated)
    processed_df,    \* app.py: the table process_dataframes returned
    processed_twice, \* the table process_dataframes returns for its own output
    error,           \* the exception that ended the run, None if none
    blocked_brands,      \* the "Blocked Brands" column of the store, in order
    blocked_product_ids, \* the "Blocked Product IDs" column of the store, in order
    combined_df,         \* app.py: the table filter_data returned
    brands_removed,      \* app.py: the first count filter_data returned
    products_removed,    \* app.py: the second count filter_data returned
    uploaded_files,      \* app.py: the uploaded files, each a sequence of sheets
    file_idx,            \* app.py: how many uploaded files the loop has handled
    all_data,            \* app.py: the frames read_excel_file returned so far
    reported,            \* app.py: the messages st.error has shown, in order
    worksheet,           \* create_excel_export: the rows of "Consolidated Data"
    stored_brands,       \* the cells under "Blocked Brands" in the brands file
    stored_product_ids,  \* the cells under "Blocked Product IDs" in the ids file
    result,              \* what the last call on the store returned, None before
    stored_reasons,      \* the cells under "Reason" in the ids file, row by row
    pending,             \* writers between their read of the brands file and their write
    succeeded,           \* the brands whose add reported success, in order
    interleaved,         \* a writer has read while another was between read and write
    metrics,             \* app.py: the figures of the metrics summary, None before
    formula_cost,        \* the exported sheet: what the shipping cost formula shows
    tutorial_active,     \* st.session_state.tutorial_active
    tutorial_step,       \* st.session_state.tutorial_step
    clicks               \* the tutorial buttons clicked so far, in order

wvars == <<title, weight, raised>>
svars == <<shipping_cost>>
tvars == <<dfs, processed_df, processed_twice, error>>
lvars == <<blocked_brands, blocked_product_ids>>
fvars == <<combined_df, brands_removed, products_removed>>
uvars == <<uploaded_files, file_idx, all_data, reported>>
xvars == <<worksheet>>
avars == <<stored_brands, stored_product_ids, result, stored_reasons>>
cvars == <<pending, succeeded, interleaved>>
mvars == <<metrics>>
kvars == <<formula_cost>>
gvars == <<tutorial_active, tutorial_step, clicks>>
vars == <<pc, title, weight, raised, shipping_legend, shipping_cost,
          dfs, processed_df, processed_twice, error,
          blocked_brands, blocked_product_ids,
          combined_df, brands_removed, products_removed,
          uploaded_files, file_idx, all_data, reported, worksheet,
          stored_brands, stored_product_ids, result, stored_reasons,
          pending, succeeded, interleaved, metrics, formula_cost,
          tutorial_active, tutorial_step, clicks>>

None == <<>>
Some(v) == <<v>>
IsNone(o) == o = <<>>
Val(o) == o[1]

(***************************************************************************)
(* Characters                                                              *)
(***************************************************************************)
LowerLetters ==
    <<"a","b","c","d","e","f","g","h","i","j","k","l","m",
      "n","o","p","q","r","s","t","u","v","w","x","y","z">>
UpperLetters ==
    <<"A","B","C","D","E","F","G","H","I","J","K","L","M",
      "N","O","P","Q","R","S","T","U","V","W","X","Y","Z">>
DigitChars == <<"0","1","2","3","4","5","6","7","8","9">>

Range(s) == {s[i] : i \in DOMAIN s}
IndexOf(s, c) == CHOOSE i \in DOMAIN s : s[i] = c

DigitSet == Range(DigitChars)
LowerSet == Range(LowerLetters)
UpperSet == Range(UpperLetters)
\* \w of the re module: letters, digits, underscore
WordSet == LowerSet \cup UpperSet \cup DigitSet \cup {"_"}

IsDigit(c) == c \in DigitSet
IsSpace(c) == c = " "
IsWord(c) == c \in WordSet
\* str.lower() / re.IGNORECASE folding of one character
Lower(c) == IF c \in UpperSet THEN LowerLetters[IndexOf(UpperLetters, c)] ELSE c
\* str.upper() of one character
Upper(c) == IF c \in LowerSet THEN UpperLetters[IndexOf(LowerLetters, c)] ELSE c
\* (<<>> \o f makes the function f a sequence value, computed once)
LowerStr(s) == <<>> \o [i \in DOMAIN s |-> Lower(s[i])]
UpperStr(s) == <<>> \o [i \in DOMAIN s |-> Upper(s[i])]
DigitVal(c) == IndexOf(DigitChars, c) - 1

\* the character at position i, "" outside the text
At(t, i) == IF i \in DOMAIN t THEN t[i] ELSE ""
Slice(t, i, j) == SubSeq(t, i, j)

\* a literal (given in lower case) matches at position i, ignoring case
LitAt(t, i, lit) ==
    /\ i >= 1
    /\ i + Len(lit) - 1 <= Len(t)
    /\ \A k \in DOMAIN lit : Lower(t[i + k - 1]) = lit[k]

\* `lit in s`: substring test
Contains(s, lit) ==
    \E i \in 1..(Len(s) - Len(lit) + 1) : \A k \in DOMAIN lit : s[i + k - 1] = lit[k]

RECURSIVE DigitRun(_, _)
\* number of consecutive digits from position i
DigitRun(t, i) == IF IsDigit(At(t, i)) THEN 1 + DigitRun(t, i + 1) ELSE 0

RECURSIVE SpaceRun(_, _)
\* number of consecutive whitespace characters from position i
SpaceRun(t, i) == IF IsSpace(At(t, i)) THEN 1 + SpaceRun(t, i + 1) ELSE 0

\* \b of the re module at position i (between t[i-1] and t[i])
WordBoundary(t, i) == IsWord(At(t, i - 1)) # IsWord(At(t, i))

RECURSIVE DigitsValue(_)
\* int() of a string of digits
DigitsValue(s) ==
    IF s = <<>> THEN 0
    ELSE 10 * DigitsValue(SubSeq(s, 1, Len(s) - 1)) + DigitVal(s[Len(s)])

RECURSIVE Pow10(_)
Pow10(n) == IF n = 0 THEN 1 ELSE 10 * Pow10(n - 1)

(***************************************************************************)
(* Numbers.  A decimal is the exact fraction [num, den].  round(x, 2) of   *)
(* Python rounds the exact value of the float half-to-even; every value    *)
(* rounded in this model is one the float arithmetic of the code computes  *)
(* exactly (integers and halves divided by 16) or one that is no tie.      *)
(***************************************************************************)
RoundHalfEven(p, q) ==
    LET fl == p \div q
        r  == p % q
    IN  IF 2 * r < q THEN fl
        ELSE IF 2 * r > q THEN fl + 1
        ELSE IF fl % 2 = 0 THEN fl ELSE fl + 1

\* round(num/den, 2), in hundredths
Round2(num, den) == RoundHalfEven(num * 100, den)

\* float() of text matched by \d+(\.\d+)? : [num, den]
FloatOf(s) ==
    LET d == DigitRun(s, 1)
    IN  IF d = Len(s) THEN [num |-> DigitsValue(s), den |-> 1]
        ELSE LET f == Len(s) - d - 1
             IN  [num |-> DigitsValue(SubSeq(s, 1, d)) * Pow10(f)
                          + DigitsValue(SubSeq(s, d + 2, Len(s))),
                  den |-> Pow10(f)]

(***************************************************************************)
(* Tables.  A cell is NaN (missing), a string or a number (hundredths).    *)
(* A DataFrame is its column names in order, its index labels and its      *)
(* rows, each row a record over the columns.                               *)
(***************************************************************************)
NaN == [k |-> "nan", v |-> <<>>]
Str(t) == [k |-> "str", v |-> t]
\* a number cell holds its value as a one-element sequence
Num(n) == [k |-> "num", v |-> <<n>>]
NumOf(c) == c.v[1]
\* pd.isnull of a cell
IsNull(c) == c.k = "nan"
\* an optional number as a cell, and back
CellOf(o) == IF IsNone(o) THEN NaN ELSE Num(Val(o))
OptOf(c) == IF c.k = "num" THEN Some(NumOf(c)) ELSE None

DataFrame(cols, index, data) ==
    [cols |-> cols, index |-> <<>> \o index, data |-> <<>> \o data]
EmptyDF == DataFrame(<<>>, <<>>, <<>>)
HasCol(df, c) == c \in Range(df.cols)
NRows(df) == Len(df.data)

\* df[c] = F(row): a column computed row by row, appended when it is new
SetCol(df, c, F(_)) ==
    DataFrame(IF HasCol(df, c) THEN df.cols ELSE Append(df.cols, c),
              df.index,
              [i \in DOMAIN df.data |-> (c :> F(df.data[i])) @@ df.data[i]])

\* df.drop(columns=[c])
DropCol(df, c) ==
    DataFrame(SelectSeq(df.cols, LAMBDA x : x # c),
              df.index,
              [i \in DOMAIN df.data |-> [x \in (DOMAIN df.data[i]) \ {c} |-> df.data[i][x]]])

\* the rows at the positions keep (a sequence of positions), in that order
TakeRows(df, keep) ==
    DataFrame(df.cols,
              [i \in DOMAIN keep |-> df.index[keep[i]]],
              [i \in DOMAIN keep |-> df.data[keep[i]]])

RECURSIVE Ascending(_)
\* the positions of the set S as an ascending sequence
Ascending(S) ==
    IF S = {} THEN <<>>
    ELSE LET m == CHOOSE x \in S : \A y \in S : x <= y
         IN  <<m>> \o Ascending(S \ {m})

TablesIdle ==
    /\ dfs = EmptyDF
    /\ processed_df = EmptyDF
    /\ processed_twice = EmptyDF
    /\ error = None

FilterIdle ==
    /\ combined_df = EmptyDF
    /\ brands_removed = 0
    /\ products_removed = 0

\* no writer at work, nothing measured or recalculated, the tutorial as
\* TutorialGuide.__init__ leaves it
SessionIdle ==
    /\ pending = <<>>
    /\ succeeded = <<>>
    /\ interleaved = FALSE
    /\ metrics = <<>>
    /\ formula_cost = <<>>
    /\ tutorial_active = FALSE
    /\ tutorial_step = 0
    /\ clicks = <<>>

\* the files of the store as ensure_files_exist creates them, no call made
FilesIdle ==
    /\ stored_brands = <<>>
    /\ stored_product_ids = <<>>
    /\ result = <<>>
    /\ stored_reasons = <<>>
    /\ SessionIdle

RunIdle ==
    /\ uploaded_files = <<>>
    /\ file_idx = 0
    /\ all_data = <<>>
    /\ reported = <<>>
    /\ worksheet = <<>>
    /\ FilesIdle

StoreEmpty ==
    /\ blocked_brands = <<>>
    /\ blocked_product_ids = <<>>

(***************************************************************************)
(* extract_weight_with_packs (data_processing.py 7-36)                     *)
(***************************************************************************)
\* the alternatives of the unit group, in the order the pattern lists them
UnitAlternatives ==
    << <<"o","z">>,
       <<"o","u","n","c","e","s">>,
       <<"o","u","n","c","e">>,
       <<"f","l","."," ","o","z",".">>,
       <<"f","l","u","i","d"," ","o","u","n","c","e">>,
       <<"f","l"," ","o","z">>,
       <<"f","l","u","i","d"," ","o","u","n","c","e","s">> >>

\* Every way (\d+(\.\d+)?)\s*(?:oz|...) can match with its first character at
\* position i: n1 digits, n2 characters of fraction (0: group absent), ns
\* whitespace characters, alternative k.
UnitsAt(t, j) == {k \in DOMAIN UnitAlternatives : LitAt(t, j, UnitAlternatives[k])}
FractionLengths(t, j) ==
    {0} \cup (IF At(t, j) = "." THEN {1 + m : m \in 1..DigitRun(t, j + 1)} ELSE {})
WeightParsesFrom(t, i, a, b) ==
    UNION { { [n1 |-> a, n2 |-> b, ns |-> s, k |-> k] : k \in UnitsAt(t, i + a + b + s) }
            : s \in 0..SpaceRun(t, i + a + b) }
WeightParsesAt(t, i) ==
    UNION { UNION { WeightParsesFrom(t, i, a, b) : b \in FractionLengths(t, i + a) }
            : a \in 1..DigitRun(t, i) }

\* the order in which the backtracking matcher tries them: greedy \d+, the
\* optional group before its absence and greedy inside, greedy \s*, then the
\* alternatives left to right
TriedBefore(c, d) ==
    \/ c.n1 > d.n1
    \/ c.n1 = d.n1 /\ c.n2 > d.n2
    \/ c.n1 = d.n1 /\ c.n2 = d.n2 /\ c.ns > d.ns
    \/ c.n1 = d.n1 /\ c.n2 = d.n2 /\ c.ns = d.ns /\ c.k < d.k

\* re.search: the match at the leftmost position where one exists; None if none.
\* g1 is group(1), g0 is group(0).
weight_match(t) ==
    LET starts == {i \in DOMAIN t : WeightParsesAt(t, i) # {}}
    IN  IF starts = {} THEN None
        ELSE LET i == CHOOSE x \in starts : \A y \in starts : x <= y
                 P == WeightParsesAt(t, i)
                 c == CHOOSE x \in P : \A y \in P : x = y \/ TriedBefore(x, y)
             IN  Some([start |-> i,
                       g1 |-> Slice(t, i, i + c.n1 + c.n2 - 1),
                       g0 |-> Slice(t, i, i + c.n1 + c.n2 + c.ns + Len(UnitAlternatives[c.k]) - 1)])

\* Every way (?:\b(\d+)\s*pack\b|\bpack of\s*(\d+)) can match at position i:
\* alt 1 is "<K> pack", alt 2 is "pack of <K>"; n digits, ns whitespace.
PackWord == <<"p","a","c","k">>
PackOf == <<"p","a","c","k"," ","o","f">>
PackParsesAlt1(t, i) ==
    UNION { { [alt |-> 1, n |-> a, ns |-> s] :
                s \in { s \in 0..SpaceRun(t, i + a) :
                           /\ LitAt(t, i + a + s, PackWord)
                           /\ WordBoundary(t, i + a + s + Len(PackWord)) } }
            : a \in 1..DigitRun(t, i) }
PackParsesAlt2(t, i) ==
    IF LitAt(t, i, PackOf)
    THEN UNION { { [alt |-> 2, n |-> a, ns |-> s] : a \in 1..DigitRun(t, i + Len(PackOf) + s) }
                 : s \in 0..SpaceRun(t, i + Len(PackOf)) }
    ELSE {}
PackParsesAt(t, i) ==
    IF WordBoundary(t, i) THEN PackParsesAlt1(t, i) \cup PackParsesAlt2(t, i) ELSE {}

PackTriedBefore(c, d) ==
    \/ c.alt < d.alt
    \/ c.alt = d.alt /\ c.alt = 1 /\ (c.n > d.n \/ (c.n = d.n /\ c.ns > d.ns))
    \/ c.alt = d.alt /\ c.alt = 2 /\ (c.ns > d.ns \/ (c.ns = d.ns /\ c.n > d.n))

\* re.search of the pack pattern: the text of group(1) or group(2); None if no match
pack_match(t) ==
    LET starts == {i \in DOMAIN t : PackParsesAt(t, i) # {}}
    IN  IF starts = {} THEN None
        ELSE LET i == CHOOSE x \in starts : \A y \in starts : x <= y
                 P == PackParsesAt(t, i)
                 c == CHOOSE x \in P : \A y \in P : x = y \/ PackTriedBefore(x, y)
             IN  Some(IF c.alt = 1 THEN Slice(t, i, i + c.n - 1)
                      ELSE Slice(t, i + 7 + c.ns, i + 7 + c.ns + c.n - 1))

\* pack_size (line 23)
pack_size(t) ==
    LET m == pack_match(t)
    IN  IF IsNone(m) THEN 1 ELSE DigitsValue(Val(m))

\* mutant: every fluid spelling gets the fluid allowance
ContainerWeight_AnyFluid(g0) ==
    IF Contains(LowerStr(g0), <<"f","l">>) THEN 10 ELSE 6

\* the packaging allowance, in ounces (lines 26-29)
ContainerWeight(g0) ==
    IF Contains(LowerStr(g0), <<"f","l"," ","o","z">>) THEN 10 ELSE 6

\* what a call leaves: exc tells that an exception propagated to the caller,
\* ret is the returned value (hundredths of a pound, or None)
Returns(v) == [exc |-> FALSE, ret |-> v]
Raises == [exc |-> TRUE, ret |-> None]

\* the body of the try (lines 10-33).  The argument is Some(text) for a str and
\* None for anything else (NaN, None), on which re.search raises TypeError.
extract_weight_body(ttl) ==
    IF IsNone(ttl) THEN Raises
    ELSE LET t == Val(ttl)
             m == weight_match(t)
         IN  IF IsNone(m) THEN Returns(None)
             ELSE LET single == FloatOf(Val(m).g1)
                      a      == ContainerWeight(Val(m).g0)
                  IN  Returns(Some(Round2((single.num + a * single.den) * pack_size(t),
                                          single.den * 16)))

\* mutant: the body without the except clause
extract_weight_with_packs_NoExcept(ttl) == extract_weight_body(ttl)

\* the function: try (lines 9-33) / except Exception: return None (lines 35-36)
extract_weight_with_packs(ttl) ==
    LET r == extract_weight_body(ttl)
    IN  IF r.exc THEN Returns(None) ELSE r

(***************************************************************************)
(* Titles of the model: up to MaxPhrases phrases written one after the     *)
(* other.  Every number in a phrase is an integer or a half, so that the   *)
(* float arithmetic of the function is exact.                              *)
(***************************************************************************)
MaxPhrases == 3

Phrases ==
    { <<"1","2"," ","o","z">>,
      <<"1",".","5"," ","f","l"," ","o","z">>,
      <<"8"," ","F","l","."," ","O","z",".">>,
      <<"4","O","U","N","C","E","S">>,
      <<"3"," ","F","L"," ","O","Z">>,
      <<"2"," ","p","a","c","k">>,
      <<"P","a","c","k"," ","o","f"," ","3">>,
      <<"6"," ","p","a","c","k","s">>,
      <<"7"," ">>,
      <<"o","z">>,
      <<" ">>,
      <<"x">> }

RECURSIVE Concat(_)
Concat(ps) == IF ps = <<>> THEN <<>> ELSE Head(ps) \o Concat(Tail(ps))

Titles == { Concat(ps) : ps \in UNION { [1..n -> Phrases] : n \in 0..MaxPhrases } }

InitWeight ==
    /\ pc = "title"
    /\ title \in {None} \cup { Some(t) : t \in Titles }
    /\ weight = None
    /\ raised = FALSE
    /\ shipping_legend = None
    /\ shipping_cost = None
    /\ TablesIdle
    /\ FilterIdle
    /\ RunIdle
    /\ StoreEmpty

\* one call of the function
ExtractWeight ==
    /\ pc = "title"
    /\ LET r == extract_weight_with_packs(title)
       IN  weight' = r.ret /\ raised' = r.exc
    /\ pc' = "extracted"
    /\ UNCHANGED <<title, shipping_legend, svars, tvars, lvars, fvars, uvars, xvars, avars, cvars, mvars, kvars, gvars>>

NextWeight == ExtractWeight

SpecWeight == InitWeight /\ [][NextWeight]_vars

(***************************************************************************)
(* calculate_shipping_cost (excel_utils.py 63-75).  A band is a row of the *)
(* legend: "Weight Range Min (lb)", "Weight Range Max (lb)" in hundredths  *)
(* of a pound, "SHIPPING COST" in cents.                                   *)
(***************************************************************************)
Band(lo, hi, c) == [min |-> lo, max |-> hi, cost |-> c]

\* mutant: the upper bound of a band is exclusive
InBand_HalfOpen(w, row) == row.min <= w /\ w < row.max

\* the test of line 70
InBand(w, row) == row.min <= w /\ w <= row.max

RECURSIVE ScanLegend(_, _, _)
\* the loop over legend.iterrows() from row i on (lines 69-73)
ScanLegend(w, legend, i) ==
    IF i > Len(legend) THEN None
    ELSE IF InBand(w, legend[i]) THEN Some(legend[i].cost)
    ELSE ScanLegend(w, legend, i + 1)

\* the function; wgt is the optional weight, legend a sequence of bands
calculate_shipping_cost(wgt, legend) ==
    IF IsNone(wgt) THEN None ELSE ScanLegend(Val(wgt), legend, 1)

MaxBands == 2

BandSet == { Band(lo, hi, c) : lo \in {0, 100}, hi \in {100, 200}, c \in {500, 750} }
Legends == UNION { [1..n -> BandSet] : n \in 0..MaxBands }
ShipWeights == {None, Some(50), Some(100), Some(150), Some(200), Some(300)}

InitShip ==
    /\ pc = "weight"
    /\ weight \in ShipWeights
    /\ shipping_legend \in { Some(l) : l \in Legends }
    /\ shipping_cost = None
    /\ title = None
    /\ raised = FALSE
    /\ TablesIdle
    /\ FilterIdle
    /\ RunIdle
    /\ StoreEmpty

\* one call of the function
ResolveShipping ==
    /\ pc = "weight"
    /\ shipping_cost' = calculate_shipping_cost(weight, Val(shipping_legend))
    /\ pc' = "resolved"
    /\ UNCHANGED <<wvars, shipping_legend, tvars, lvars, fvars, uvars, xvars, avars, cvars, mvars, kvars, gvars>>

NextShip == ResolveShipping

SpecShip == InitShip /\ [][NextShip]_vars

(***************************************************************************)
(* The shipping cost formula of the export (excel_utils.py 88-90 and       *)
(* 173-175), as the spreadsheet evaluates it once a weight is entered:     *)
(* =IF(ISBLANK(w),"",ROUND(VLOOKUP(w,ShippingLegend!A:C,3,TRUE),1)), the   *)
(* legend being written with its minimum in column A and its cost in C.    *)
(***************************************************************************)
CellShows(kind, c) == [shown |-> kind, cost |-> c]

\* VLOOKUP(w, A:C, 3, TRUE) on a column A in ascending order: the row of the
\* largest minimum that is not above w, the last of equal ones
LookupRows(w, legend) ==
    { i \in DOMAIN legend :
        /\ legend[i].min <= w
        /\ \A j \in DOMAIN legend :
              legend[j].min <= w =>
                  \/ legend[j].min < legend[i].min
                  \/ legend[j].min = legend[i].min /\ j <= i }

\* ROUND(x, 1) of x hundredths, halves away from zero
Round1(x) == ((x + 5) \div 10) * 10

\* line 174: what the cell shows for the weight entered
ShippingFormulaValue(wgt, legend) ==
    IF IsNone(wgt) THEN CellShows("", 0)
    ELSE IF LookupRows(Val(wgt), legend) = {} THEN CellShows("#N/A", 0)
    ELSE CellShows("cost", Round1(legend[CHOOSE i \in LookupRows(Val(wgt), legend) : TRUE].cost))

\* the sheet recalculates after the weight is entered
Recalculate ==
    /\ pc = "resolved"
    /\ formula_cost' = Some(ShippingFormulaValue(weight, Val(shipping_legend)))
    /\ pc' = "recalculated"
    /\ UNCHANGED <<wvars, shipping_legend, svars, tvars, lvars, fvars, uvars, xvars, avars,
                   cvars, mvars, gvars>>

NextLookup == ResolveShipping \/ Recalculate

SpecLookup == InitShip /\ [][NextLookup]_vars

(***************************************************************************)
(* process_dataframes (data_processing.py 38-141), as app.py calls it: one *)
(* frame with the canonical column names, no blocked-brands manager.       *)
(***************************************************************************)
RECURSIVE RemoveAll(_, _)
\* str.replace(lit, ""): every occurrence of lit, left to right, is removed
RemoveAll(t, lit) ==
    IF Len(t) < Len(lit) THEN t
    ELSE IF SubSeq(t, 1, Len(lit)) = lit
         THEN RemoveAll(SubSeq(t, Len(lit) + 1, Len(t)), lit)
         ELSE <<Head(t)>> \o RemoveAll(Tail(t), lit)

\* str.strip()
Strip(t) ==
    LET ink == {i \in DOMAIN t : ~IsSpace(t[i])}
    IN  IF ink = {} THEN <<>>
        ELSE SubSeq(t, CHOOSE x \in ink : \A y \in ink : x <= y,
                       CHOOSE x \in ink : \A y \in ink : x >= y)

RECURSIVE IntToText(_)
\* str() of a non-negative integer
IntToText(n) ==
    IF n < 10 THEN <<DigitChars[n + 1]>>
    ELSE IntToText(n \div 10) \o <<DigitChars[(n % 10) + 1]>>

\* str() of a float holding n hundredths: "4.5", "17.21", "1000.0"
NumText(n) ==
    IntToText(n \div 100) \o <<".">> \o
    (IF n % 10 = 0 THEN <<DigitChars[((n % 100) \div 10) + 1]>>
     ELSE <<DigitChars[((n % 100) \div 10) + 1], DigitChars[(n % 10) + 1]>>)

NanText == <<"n","a","n">>

\* .astype(str) of a cell
AsTypeStr(c) ==
    IF c.k = "str" THEN c.v
    ELSE IF c.k = "num" THEN NumText(NumOf(c))
    ELSE NanText

\* float(t) succeeds: digits, optionally a point and digits, or "nan"
FloatParses(t) ==
    \/ t = NanText
    \/ LET d == DigitRun(t, 1)
       IN  /\ d >= 1
           /\ \/ d = Len(t)
              \/ At(t, d + 1) = "." /\ Len(t) > d + 1 /\ DigitRun(t, d + 2) = Len(t) - d - 1

\* Format SKU (line 81)
FormatSKU(c) == Str(Strip(RemoveAll(AsTypeStr(c), <<",">>)))

\* Clean TITLE (lines 85-89); a cell that is no string stays missing
CleanTitle(c) ==
    IF c.k = "str"
    THEN Str(Strip(RemoveAll(RemoveAll(RemoveAll(c.v, <<"(","W","+",")">>),
                                       <<"(","S","P",")">>),
                             <<"(","P",")">>)))
    ELSE NaN

UpcWidth == 12

\* str.zfill(w)
ZFill(t, w) == IF Len(t) >= w THEN t ELSE [i \in 1..(w - Len(t)) |-> "0"] \o t

\* str(int(float(x))) of a value written as digits (and a fraction, dropped)
IntStr(t) ==
    LET whole == SubSeq(t, 1, DigitRun(t, 1))
        nz    == {i \in DOMAIN whole : whole[i] # "0"}
    IN  IF nz = {} THEN <<"0">>
        ELSE SubSeq(whole, CHOOSE x \in nz : \A y \in nz : x <= y, Len(whole))

\* the lambda of line 94
UpcLambda(c) == IF ~IsNull(c) THEN IntStr(AsTypeStr(c)) ELSE <<>>

\* mutant: the missing value is left empty, not padded
FormatUPC_KeepEmpty(c) == Str(IF IsNull(c) THEN <<>> ELSE ZFill(UpcLambda(c), UpcWidth))

\* Format UPC/ISBN (lines 93-95): the lambda, then .str.zfill(12) on every value
FormatUPC(c) == Str(ZFill(UpcLambda(c), UpcWidth))

\* the text of a cost once "$" and "," are removed (lines 100-101)
CostText(c) == SelectSeq(AsTypeStr(c), LAMBDA x : x \notin {"$", ","})

\* Format COST_PRICE (lines 99-103), in cents
FormatCost(c) ==
    LET t == CostText(c)
    IN  IF t = NanText THEN NaN ELSE Num(Round2(FloatOf(t).num, FloatOf(t).den))

HandlingCost == 75
MarkupPercent == 135

\* round(x * 1.35, 2) of x cents
Markup(x) == RoundHalfEven(x * MarkupPercent, 100)

\* mutant: a missing shipping cost counts as zero
RetailPrice_Partial(r) ==
    IF IsNull(r["COST_PRICE"]) \/ IsNull(r["HANDLING COST"]) THEN NaN
    ELSE Num(Markup(NumOf(r["COST_PRICE"])
                    + (IF IsNull(r["SHIPPING COST"]) THEN 0 ELSE NumOf(r["SHIPPING COST"]))
                    + NumOf(r["HANDLING COST"])))

\* the lambda of lines 122-124
RetailPrice(r) ==
    IF ~(IsNull(r["COST_PRICE"]) \/ IsNull(r["SHIPPING COST"]) \/ IsNull(r["HANDLING COST"]))
    THEN Num(Markup(NumOf(r["COST_PRICE"]) + NumOf(r["SHIPPING COST"]) + NumOf(r["HANDLING COST"])))
    ELSE NaN

\* mutant: the maximum price is the retail price, without the markup
MaxPrice_NoMarkup(r) == r["RETAIL PRICE"]

\* the lambda of line 131 (a missing retail price is NaN and stays NaN)
MaxPrice(r) == IF IsNull(r["RETAIL PRICE"]) THEN NaN ELSE Num(Markup(NumOf(r["RETAIL PRICE"])))

\* the argument extract_weight_with_packs gets from a TITLE cell
TitleArg(c) == IF c.k = "str" THEN Some(c.v) ELSE None

\* the exception that ends process_dataframes on df, None if there is none:
\* the .str accessor on a TITLE column holding no string, float() on a
\* UPC or a cost that is no number
ProcessError(df) ==
    IF /\ HasCol(df, "TITLE")
       /\ NRows(df) > 0
       /\ \A i \in DOMAIN df.data : df.data[i]["TITLE"].k # "str"
    THEN Some("AttributeError")
    ELSE IF \/ HasCol(df, "UPC/ISBN")
               /\ \E i \in DOMAIN df.data :
                      /\ ~IsNull(df.data[i]["UPC/ISBN"])
                      /\ \/ ~FloatParses(AsTypeStr(df.data[i]["UPC/ISBN"]))
                         \/ AsTypeStr(df.data[i]["UPC/ISBN"]) = NanText
            \/ HasCol(df, "COST_PRICE")
               /\ \E i \in DOMAIN df.data : ~FloatParses(CostText(df.data[i]["COST_PRICE"]))
    THEN Some("ValueError")
    ELSE None

\* line 48: pd.concat(dfs, ignore_index=True)
Reindexed(df) == DataFrame(df.cols, [i \in DOMAIN df.data |-> i - 1], df.data)

\* lines 80-81
SkuFormatted(df) ==
    IF HasCol(df, "SKU") THEN SetCol(df, "SKU", LAMBDA r : FormatSKU(r["SKU"])) ELSE df

\* lines 84-89
TitleCleaned(df) ==
    IF HasCol(df, "TITLE") THEN SetCol(df, "TITLE", LAMBDA r : CleanTitle(r["TITLE"])) ELSE df

\* lines 92-95
UpcFormatted(df) ==
    IF HasCol(df, "UPC/ISBN")
    THEN SetCol(df, "UPC/ISBN", LAMBDA r : FormatUPC(r["UPC/ISBN"])) ELSE df

\* lines 98-103
CostFormatted(df) ==
    IF HasCol(df, "COST_PRICE")
    THEN SetCol(df, "COST_PRICE", LAMBDA r : FormatCost(r["COST_PRICE"])) ELSE df

\* lines 106-108: the standard columns (the quantity 1 in hundredths)
StandardColumns(df) ==
    SetCol(SetCol(SetCol(df, "HANDLING COST", LAMBDA r : Num(HandlingCost)),
                  "QUANTITY", LAMBDA r : Num(100)),
           "ITEM LOCATION", LAMBDA r : Str(<<"W","A","L","M","A","R","T">>))

\* line 111
Weighed(df) ==
    SetCol(df, "ITEM WEIGHT (pounds)",
           LAMBDA r : CellOf(extract_weight_with_packs(TitleArg(r["TITLE"])).ret))

\* lines 48-111: concat with ignore_index, the formats, the standard columns, the weights
Normalized(df) ==
    Weighed(StandardColumns(CostFormatted(UpcFormatted(TitleCleaned(SkuFormatted(Reindexed(df)))))))

\* lines 114-117
ShippingAdded(df, legend) ==
    IF ~IsNone(legend)
    THEN SetCol(df, "SHIPPING COST",
                LAMBDA r : CellOf(calculate_shipping_cost(OptOf(r["ITEM WEIGHT (pounds)"]),
                                                          Val(legend))))
    ELSE df

\* lines 120-126
RetailAdded(df) ==
    IF HasCol(df, "COST_PRICE") /\ HasCol(df, "SHIPPING COST") /\ HasCol(df, "HANDLING COST")
    THEN SetCol(df, "RETAIL PRICE", RetailPrice) ELSE df

\* lines 129-131
MinMaxAdded(df) ==
    IF HasCol(df, "SHIPPING COST") /\ HasCol(df, "ITEM WEIGHT (pounds)")
       /\ HasCol(df, "RETAIL PRICE")
    THEN SetCol(SetCol(df, "MIN PRICE", LAMBDA r : r["RETAIL PRICE"]), "MAX PRICE", MaxPrice)
    ELSE df

\* lines 48-131: the table before the duplicates go
Priced(df, legend) == MinMaxAdded(RetailAdded(ShippingAdded(Normalized(df), legend)))

\* mutant: the last of equal rows is kept
RemoveDuplicates_KeepLast(df) ==
    TakeRows(df, Ascending({i \in DOMAIN df.data :
                              \A j \in (i + 1)..Len(df.data) : df.data[j] # df.data[i]}))

\* df.drop_duplicates() (line 134): of equal rows the first is kept
RemoveDuplicates(df) ==
    TakeRows(df, Ascending({i \in DOMAIN df.data :
                              \A j \in 1..(i - 1) : df.data[j] # df.data[i]}))

MissingWeight(df, i) == IsNull(df.data[i]["ITEM WEIGHT (pounds)"])

RowOrders(n) == {p \in [1..n -> 1..n] : \A a, b \in 1..n : a # b => p[a] # p[b]}

\* lines 137-139: sort_values(by='Missing Weight') with the default kind,
\* quicksort, which is not stable: the rows come out ordered by the key, rows
\* of equal key in an order the sort does not promise.  Every such order is
\* an outcome.  (numpy's quicksort sorts short arrays by insertion, which
\* keeps the input order; it starts to exchange rows of equal key at 18
\* rows.  The tables here are shorter, so the model takes the contract of
\* the sort, not the behaviour of one numpy build on a short table.)
SortMissingLast(df) ==
    { TakeRows(df, p) : p \in { p \in RowOrders(NRows(df)) :
          \A a, b \in 1..NRows(df) :
              a < b => ~(MissingWeight(df, p[a]) /\ ~MissingWeight(df, p[b])) } }

\* what the function leaves, [err, df], given the exception err it meets
Outcomes(err, df, legend) ==
    IF ~IsNone(err)
    THEN { [err |-> err, df |-> EmptyDF] }
    ELSE { [err |-> None, df |-> d] :
             d \in SortMissingLast(RemoveDuplicates(Priced(df, legend))) }

\* the function: the set of its possible outcomes
process_dataframes(df, legend) == Outcomes(ProcessError(df), df, legend)

(***************************************************************************)
(* The tables of the model: up to MaxRows rows read from the uploaded      *)
(* sheets, with the canonical column names read_excel_file gives them.     *)
(* The costs are chosen so that no price is a rounding tie.                *)
(***************************************************************************)
MaxRows == 3

RawCols == <<"TITLE", "BRAND", "SKU", "UPC/ISBN", "COST_PRICE">>
RawRow(t, b, s, u, c) ==
    ("TITLE" :> t) @@ ("BRAND" :> b) @@ ("SKU" :> s) @@ ("UPC/ISBN" :> u)
        @@ ("COST_PRICE" :> c)

T12oz  == <<"1","2"," ","o","z">>
T12ozP == <<"1","2"," ","o","z"," ","(","P",")">>
Tx     == <<"x">>
TNest  == <<"(","S","(","P",")","P",")","x">>
TPack  == <<"P","a","c","k"," ","o","f"," ","3"," ","1","2"," ","o","z">>
T4oz   == <<"4","O","U","N","C","E","S">>
Acme   == Str(<<"A","C","M","E">>)
Upc123 == Str(<<"1","2","3">>)
Cost450 == Str(<<"$","4",".","5","0">>)
Cost1000 == Str(<<"1",",","0","0","0">>)

RawRows ==
    { RawRow(Str(T12oz),  Acme, Str(<<"1">>),         Upc123, Cost450),
      RawRow(Str(T12ozP), Acme, Str(<<"1">>),         Upc123, Cost450),
      RawRow(Str(Tx),     Acme, Str(<<"9">>),         NaN,    Cost450),
      RawRow(Str(TNest),  Acme, Str(<<"9">>),         NaN,    NaN),
      RawRow(Str(TPack),  Acme, Str(<<"1",",","9">>), Upc123, Cost450),
      RawRow(NaN,         Acme, Str(<<"9">>),         Upc123, Cost450),
      RawRow(Str(T4oz),   Acme, Str(<<" ","9">>),     Upc123, NaN),
      RawRow(Str(T4oz),   Acme, Str(<<"9">>),         Upc123, Cost1000) }

RawTables ==
    { DataFrame(RawCols, [i \in DOMAIN rows |-> i - 1], rows) :
        rows \in UNION { [1..n -> RawRows] : n \in 1..MaxRows } }

TwoBands == <<Band(0, 100, 500), Band(100, 200, 750)>>

InitAssemble ==
    /\ pc = "raw"
    /\ dfs \in RawTables
    /\ shipping_legend \in {None, Some(TwoBands)}
    /\ processed_df = EmptyDF
    /\ processed_twice = EmptyDF
    /\ error = None
    /\ title = None
    /\ weight = None
    /\ raised = FALSE
    /\ shipping_cost = None
    /\ FilterIdle
    /\ RunIdle
    /\ StoreEmpty

\* app.py line 286: processed_df, _ = process_dataframes([combined_raw], None, shipping_legend)
Process ==
    /\ pc = "raw"
    /\ \E o \in process_dataframes(dfs, shipping_legend) :
          /\ processed_df' = o.df
          /\ error' = o.err
          /\ pc' = IF IsNone(o.err) THEN "processed" ELSE "failed"
    /\ UNCHANGED <<wvars, shipping_legend, svars, dfs, processed_twice, lvars, fvars,
                   uvars, xvars, avars, cvars, mvars, kvars, gvars>>

\* process_dataframes applied to the table it returned, with the same legend
ProcessAgain ==
    /\ pc = "processed"
    /\ \E o \in process_dataframes(processed_df, shipping_legend) :
          /\ processed_twice' = o.df
          /\ error' = o.err
          /\ pc' = IF IsNone(o.err) THEN "reprocessed" ELSE "failed"
    /\ UNCHANGED <<wvars, shipping_legend, svars, dfs, processed_df, lvars, fvars,
                   uvars, xvars, avars, cvars, mvars, kvars, gvars>>

NextAssemble == Process \/ ProcessAgain

SpecAssemble == InitAssemble /\ [][NextAssemble]_vars

(***************************************************************************)
(* BlockedItemsManager.filter_data (blocked_items.py 152-175)              *)
(***************************************************************************)
\* line 162: the blocked brands, uppercased, the empty ones left out
BlockedBrandsList(brands) ==
    { UpperStr(brands[i]) : i \in { i \in DOMAIN brands : brands[i] # <<>> } }

\* line 170: the blocked ids, stripped, the empty ones left out
BlockedIdsList(ids) ==
    { Strip(ids[i]) : i \in { i \in DOMAIN ids : ids[i] # <<>> } }

\* Series.str.upper() of a cell: a missing brand stays missing
BrandUpper(c) == IF c.k = "str" THEN Str(UpperStr(c.v)) ELSE NaN

\* line 163: df["BRAND_UPPER"] = df["BRAND"].str.upper(), on the caller's table
WithBrandUpper(df) == SetCol(df, "BRAND_UPPER", LAMBDA r : BrandUpper(r["BRAND"]))

\* df[mask]: the rows for which Keep holds, in order
SelectRows(df, Keep(_)) ==
    TakeRows(df, Ascending({ i \in DOMAIN df.data : Keep(df.data[i]) }))

\* lines 164-165
AfterBrands(df, brands) ==
    DropCol(SelectRows(WithBrandUpper(df),
                       LAMBDA r : ~(/\ r["BRAND_UPPER"].k = "str"
                                    /\ r["BRAND_UPPER"].v \in BlockedBrandsList(brands))),
            "BRAND_UPPER")

\* line 171
AfterIds(df, ids) ==
    SelectRows(df, LAMBDA r : AsTypeStr(r["SKU"]) \notin BlockedIdsList(ids))

\* mutant: the id pass is counted from the input table
Counted_FromInput(df, after_brands, final) ==
    [df_final |-> final,
     brands_removed |-> NRows(df) - NRows(after_brands),
     products_removed |-> NRows(df) - NRows(final)]

\* what the two passes return, given the table each pass leaves
Counted(df, after_brands, final) ==
    [df_final |-> final,
     brands_removed |-> NRows(df) - NRows(after_brands),
     products_removed |-> NRows(after_brands) - NRows(final)]

\* mutant: the id pass runs first, the brand pass on what it leaves
filter_data_IdsFirst(df, brands, ids) ==
    [df_final |-> AfterBrands(AfterIds(df, ids), brands),
     brands_removed |-> NRows(AfterIds(df, ids)) - NRows(AfterBrands(AfterIds(df, ids), brands)),
     products_removed |-> NRows(df) - NRows(AfterIds(df, ids))]

\* lines 158-175: the returned triple
filter_data(df, brands, ids) ==
    Counted(df, AfterBrands(df, brands), AfterIds(AfterBrands(df, brands), ids))

\* the .str accessor of line 163 raises on a BRAND column holding no string
FilterError(df) ==
    IF NRows(df) > 0 /\ \A i \in DOMAIN df.data : df.data[i]["BRAND"].k # "str"
    THEN Some("AttributeError")
    ELSE None

\* the rows the filter is run on: brands in either case and missing, skus
\* with and without a blocked id
Cost450Row(b, s) == RawRow(Str(Tx), b, s, NaN, Cost450)
BrandRows ==
    { Cost450Row(Str(<<"a","c","m","e">>), Str(<<"2">>)),
      Cost450Row(Str(<<"X">>),             Str(<<"9">>)),
      Cost450Row(Acme,                     Str(<<" ","9">>)),
      Cost450Row(NaN,                      Str(<<"3">>)) }

BrandTables ==
    { DataFrame(RawCols, [i \in DOMAIN rows |-> i - 1], rows) :
        rows \in UNION { [1..n -> BrandRows] : n \in 1..MaxRows } }

BlockedBrandStores ==
    { <<>>, << <<"a","c","m","e">> >>, << <<"A","C","M","E">>, <<"x">> >> }
BlockedIdStores ==
    { <<>>, << <<" ","9">> >>, << <<"2">>, <<"9">> >> }

InitFilter ==
    /\ pc = "raw"
    /\ dfs \in BrandTables
    /\ shipping_legend = None
    /\ blocked_brands \in BlockedBrandStores
    /\ blocked_product_ids \in BlockedIdStores
    /\ processed_df = EmptyDF
    /\ processed_twice = EmptyDF
    /\ error = None
    /\ title = None
    /\ weight = None
    /\ raised = FALSE
    /\ shipping_cost = None
    /\ FilterIdle
    /\ RunIdle

\* app.py line 289:
\* combined_df, brands_removed, products_removed = filter_data(processed_df)
FilterData ==
    /\ pc = "processed"
    /\ IF ~IsNone(FilterError(processed_df))
       THEN /\ error' = FilterError(processed_df)
            /\ pc' = "failed"
            /\ UNCHANGED <<processed_df, fvars>>
       ELSE LET out == filter_data(processed_df, blocked_brands, blocked_product_ids)
            IN  /\ processed_df' = WithBrandUpper(processed_df)
                /\ combined_df' = out.df_final
                /\ brands_removed' = out.brands_removed
                /\ products_removed' = out.products_removed
                /\ pc' = "filtered"
                /\ UNCHANGED error
    /\ UNCHANGED <<wvars, shipping_legend, svars, dfs, processed_twice, lvars, uvars, xvars, avars, cvars, mvars, kvars, gvars>>

NextFilter == Process \/ FilterData

SpecFilter == InitFilter /\ [][NextFilter]_vars

(***************************************************************************)
(* filter_data on its own (blocked_items.py 152-175): the method takes any *)
(* table with a BRAND and a SKU column.  The tables have the columns       *)
(* process_dataframes leaves without a legend; the skus come with and      *)
(* without blanks around them.                                             *)
(***************************************************************************)
IdPassCols ==
    RawCols \o <<"HANDLING COST", "QUANTITY", "ITEM LOCATION", "ITEM WEIGHT (pounds)">>

IdPassRow(b, s) ==
    Cost450Row(b, s)
    @@ ("HANDLING COST" :> Num(HandlingCost)) @@ ("QUANTITY" :> Num(100))
    @@ ("ITEM LOCATION" :> Str(<<"W","A","L","M","A","R","T">>))
    @@ ("ITEM WEIGHT (pounds)" :> NaN)

IdPassRows ==
    { IdPassRow(b, Str(s)) :
        b \in {Acme, Str(<<"X">>)},
        s \in {<<"9">>, <<" ","9">>, <<"9"," ">>, <<"3">>} }

IdPassTables ==
    { DataFrame(IdPassCols, [i \in DOMAIN rows |-> i - 1], rows) :
        rows \in UNION { [1..n -> IdPassRows] : n \in 1..MaxRows } }

InitIdPass ==
    /\ pc = "processed"
    /\ processed_df \in IdPassTables
    /\ blocked_brands \in BlockedBrandStores
    /\ blocked_product_ids \in BlockedIdStores
    /\ shipping_legend = None
    /\ dfs = EmptyDF
    /\ processed_twice = EmptyDF
    /\ error = None
    /\ title = None
    /\ weight = None
    /\ raised = FALSE
    /\ shipping_cost = None
    /\ FilterIdle
    /\ RunIdle

NextIdPass == FilterData

SpecIdPass == InitIdPass /\ [][NextIdPass]_vars

(***************************************************************************)
(* add_brand and add_product_id (blocked_items.py 61-106).  A file of the  *)
(* store is the sequence of cells under its heading: a text cell, a number *)
(* cell or an empty cell.  pd.read_excel hands the cells of a column to    *)
(* the parser of pandas, which takes the default missing-value texts for   *)
(* missing and turns a column whose cells all read as numbers into         *)
(* numbers; to_excel writes a missing value as an empty cell, a number as  *)
(* a number cell and a string as a text cell.  Whole numbers are held as   *)
(* hundredths like every number of this model.                             *)
(***************************************************************************)
\* one of the default na_values of pandas
NaTexts == { <<"N","A">> }

\* the cell as the parser sees it before the column is typed
ParsedCell(c) == IF c.k = "str" /\ c.v \in NaTexts THEN NaN ELSE c

\* text the parser reads as a whole number
NumericText(t) == t # <<>> /\ DigitRun(t, 1) = Len(t)

\* the column is typed as numbers: every cell is missing, a number or numeric text
ReadsAsNumbers(cells) ==
    \A i \in DOMAIN cells :
        \/ ParsedCell(cells[i]).k # "str"
        \/ NumericText(ParsedCell(cells[i]).v)

NumberOf(c) == IF c.k = "str" THEN Num(100 * DigitsValue(c.v)) ELSE c

\* lines 67 and 89: df[column] as pd.read_excel returns it
ReadColumn(cells) ==
    IF ReadsAsNumbers(cells)
    THEN <<>> \o [i \in DOMAIN cells |-> NumberOf(ParsedCell(cells[i]))]
    ELSE <<>> \o [i \in DOMAIN cells |-> ParsedCell(cells[i])]

\* lines 62 and 85: not x or not x.strip()
IsBlank(t) == t = <<>> \/ Strip(t) = <<>>

\* lines 70 and 92: x in df[column].values, x being a str
InValues(t, values) == \E i \in DOMAIN values : values[i].k = "str" /\ values[i].v = t

Returned(call, ok, message, about) ==
    Some([call |-> call, ok |-> ok, message |-> message, about |-> about])

\* mutant: the entry is stored as typed, blanks included
Appended_Untrimmed(cells, t) == Append(ReadColumn(cells), Str(t))

\* lines 73-77 and 95-102: the column after concat and to_excel
Appended(cells, t) == Append(ReadColumn(cells), Str(Strip(t)))

\* lines 61-81: the file after the call
BrandsAfter(cells, brand) ==
    IF IsBlank(brand) \/ InValues(Strip(brand), ReadColumn(cells)) THEN cells
    ELSE Appended(cells, brand)

\* lines 61-81: the returned pair
add_brand(cells, brand) ==
    IF IsBlank(brand)
    THEN Returned("add_brand", FALSE, "Please enter a valid brand name.", brand)
    ELSE IF InValues(Strip(brand), ReadColumn(cells))
         THEN Returned("add_brand", FALSE, "is already in the blocked list.", brand)
         ELSE Returned("add_brand", TRUE, "has been added to the blocked list.", brand)

\* lines 83-106: the file after the call
ProductIdsAfter(cells, product_id) ==
    IF IsBlank(product_id) \/ InValues(Strip(product_id), ReadColumn(cells)) THEN cells
    ELSE Appended(cells, product_id)

\* lines 83-106: the returned pair
add_product_id(cells, product_id) ==
    IF IsBlank(product_id)
    THEN Returned("add_product_id", FALSE, "Please enter a valid Product ID.", product_id)
    ELSE IF InValues(Strip(product_id), ReadColumn(cells))
         THEN Returned("add_product_id", FALSE, "is already in the blocked list.", product_id)
         ELSE Returned("add_product_id", TRUE, "has been added to the blocked list.", product_id)

\* lines 97-98: reason.strip() if reason else "No reason provided"
NoReason == <<"N","o"," ","r","e","a","s","o","n"," ","p","r","o","v","i","d","e","d">>
ReasonCell(reason) == IF reason = <<>> THEN Str(NoReason) ELSE Str(Strip(reason))

\* lines 83-106: the "Reason" column of the file after the call
ReasonsAfter(reasons, cells, product_id, reason) ==
    IF IsBlank(product_id) \/ InValues(Strip(product_id), ReadColumn(cells)) THEN reasons
    ELSE Append(ReadColumn(reasons), ReasonCell(reason))

\* the reasons typed into the form
Reasons == { <<>>, <<"r">> }

\* what is typed into the form
Entries ==
    { <<>>, <<" ">>, <<"9">>, <<" ","9">>, <<"a">>, <<"a"," ">>, <<"N","A">> }

MaxEntries == 2

AddBrand ==
    /\ pc = "store"
    /\ Len(stored_brands) < MaxEntries
    /\ \E brand \in Entries :
          /\ stored_brands' = BrandsAfter(stored_brands, brand)
          /\ result' = add_brand(stored_brands, brand)
    /\ UNCHANGED <<pc, wvars, shipping_legend, svars, tvars, lvars, fvars, uvars, xvars,
                   stored_product_ids, stored_reasons, cvars, mvars, kvars, gvars>>

AddProductId ==
    /\ pc = "store"
    /\ Len(stored_product_ids) < MaxEntries
    /\ \E product_id \in Entries :
          /\ stored_product_ids' = ProductIdsAfter(stored_product_ids, product_id)
          /\ result' = add_product_id(stored_product_ids, product_id)
          /\ \E reason \in Reasons :
                stored_reasons' =
                    ReasonsAfter(stored_reasons, stored_product_ids, product_id, reason)
    /\ UNCHANGED <<pc, wvars, shipping_legend, svars, tvars, lvars, fvars, uvars, xvars,
                   stored_brands, cvars, mvars, kvars, gvars>>

InitStore ==
    /\ pc = "store"
    /\ shipping_legend = None
    /\ title = None
    /\ weight = None
    /\ raised = FALSE
    /\ shipping_cost = None
    /\ TablesIdle
    /\ FilterIdle
    /\ RunIdle
    /\ StoreEmpty

NextStore == AddBrand \/ AddProductId

SpecStore == InitStore /\ [][NextStore]_vars

(***************************************************************************)
(* bulk_upload_brands and bulk_upload_product_ids (blocked_items.py        *)
(* 108-150), on the frame app.py reads from the uploaded file with         *)
(* pd.read_excel (app.py 159-161 and 191-193): the frame has the key       *)
(* column or not, and for the ids a reason column.                         *)
(***************************************************************************)
Upload(has_column, cells, reasons) ==
    [has_column |-> has_column, cells |-> cells, reasons |-> reasons]

\* two values of a key column are the same to drop_duplicates
SameKey(a, b) == a.k = b.k /\ a.v = b.v

\* drop_duplicates(subset=[key]): the positions kept, the first of equal keys
FirstOfKey(keys) ==
    Ascending({ i \in DOMAIN keys : \A j \in 1..(i - 1) : ~SameKey(keys[j], keys[i]) })

\* the rows at the positions kept
Kept(column, positions) == <<>> \o [k \in DOMAIN positions |-> column[positions[k]]]

\* lines 118-121 and 140-143: pd.concat([current_df, df]).drop_duplicates(...)
MergedKeys(cells, upload) ==
    Kept(ReadColumn(cells) \o ReadColumn(upload.cells),
         FirstOfKey(ReadColumn(cells) \o ReadColumn(upload.cells)))

MergedReasons(cells, reasons, upload) ==
    Kept(ReadColumn(reasons) \o ReadColumn(upload.reasons),
         FirstOfKey(ReadColumn(cells) \o ReadColumn(upload.cells)))

\* lines 108-128: the returned pair
bulk_upload_brands(upload) ==
    IF ~upload.has_column
    THEN Returned("bulk_upload_brands", FALSE,
                  "The uploaded file must contain a 'Blocked Brands' column.", <<>>)
    ELSE Returned("bulk_upload_brands", TRUE,
                  "Blocked Brands have been updated successfully.", <<>>)

\* lines 130-150: the returned pair
bulk_upload_product_ids(upload) ==
    IF ~upload.has_column
    THEN Returned("bulk_upload_product_ids", FALSE,
                  "The uploaded file must contain a 'Blocked Product IDs' column.", <<>>)
    ELSE Returned("bulk_upload_product_ids", TRUE,
                  "Blocked Product IDs have been updated successfully.", <<>>)

\* the cells of the uploaded files: text, numeric text, an empty cell
UploadCells == { Str(<<"a">>), Str(<<"9">>), NaN }
UploadReason == Str(<<"s">>)

MaxUpload == 2

UploadColumns == UNION { [1..n -> UploadCells] : n \in 1..MaxUpload }

Uploads ==
    { Upload(TRUE, cells, [i \in DOMAIN cells |-> UploadReason]) : cells \in UploadColumns }
        \cup { Upload(FALSE, <<>>, <<>>) }

BulkUploadBrands ==
    /\ pc = "store"
    /\ Len(stored_brands) < MaxEntries
    /\ \E upload \in Uploads :
          /\ stored_brands' = IF upload.has_column THEN MergedKeys(stored_brands, upload)
                                                   ELSE stored_brands
          /\ result' = bulk_upload_brands(upload)
    /\ UNCHANGED <<pc, wvars, shipping_legend, svars, tvars, lvars, fvars, uvars, xvars,
                   stored_product_ids, stored_reasons, cvars, mvars, kvars, gvars>>

BulkUploadProductIds ==
    /\ pc = "store"
    /\ Len(stored_product_ids) < MaxEntries
    /\ \E upload \in Uploads :
          /\ stored_product_ids' =
                IF upload.has_column THEN MergedKeys(stored_product_ids, upload)
                                     ELSE stored_product_ids
          /\ stored_reasons' =
                IF upload.has_column
                THEN MergedReasons(stored_product_ids, stored_reasons, upload)
                ELSE stored_reasons
          /\ result' = bulk_upload_product_ids(upload)
    /\ UNCHANGED <<pc, wvars, shipping_legend, svars, tvars, lvars, fvars, uvars, xvars,
                   stored_brands, cvars, mvars, kvars, gvars>>

NextBlockList == AddBrand \/ AddProductId \/ BulkUploadBrands \/ BulkUploadProductIds

SpecBlockList == InitStore /\ [][NextBlockList]_vars

(***************************************************************************)
(* Writers on the brands file side by side (blocked_items.py 61-81 and     *)
(* 108-128).  Each call reads the file (lines 67, 114) and later writes    *)
(* the frame it built back (lines 76-77, 123-124); nothing holds the file  *)
(* in between, so the calls of two sessions may interleave at that point.  *)
(***************************************************************************)
MaxWriters == 2
Writers == 1..MaxWriters

\* the writers between their read and their write
Reading == DOMAIN pending

\* pending without writer w
Without(w) ==
    IF Reading \ {w} = {} THEN <<>>
    ELSE [v \in Reading \ {w} |-> pending[v]]

\* what a writer holds after its read: the call, the frame read, its argument
Held(call, df, brand, upload) == [call |-> call, df |-> df, brand |-> brand, upload |-> upload]

NoUpload == Upload(FALSE, <<>>, <<>>)

\* what a call on the brands file leaves alone
WriterFrame ==
    <<pc, wvars, shipping_legend, svars, tvars, lvars, fvars, uvars, xvars,
      stored_product_ids, stored_reasons, mvars, kvars, gvars>>

\* lines 62-63: blank input returns before the file is read
AddBrandBlank ==
    /\ pc = "store"
    /\ \E w \in Writers \ Reading : \E brand \in Entries :
          /\ IsBlank(brand)
          /\ result' = add_brand(stored_brands, brand)
    /\ UNCHANGED <<stored_brands, pending, succeeded, interleaved, WriterFrame>>

\* lines 66-68: the file is read, the brand stripped
AddBrandRead ==
    /\ pc = "store"
    /\ Len(stored_brands) < MaxEntries
    /\ Len(succeeded) < MaxEntries
    /\ \E w \in Writers \ Reading : \E brand \in Entries :
          /\ ~IsBlank(brand)
          /\ pending' = (w :> Held("add_brand", ReadColumn(stored_brands), Strip(brand), NoUpload))
                        @@ pending
    /\ interleaved' = (interleaved \/ Reading # {})
    /\ UNCHANGED <<stored_brands, result, succeeded, WriterFrame>>

\* lines 70-79: the test on the frame read, and the write of that frame
AddBrandWrite ==
    /\ pc = "store"
    /\ \E w \in Reading :
          /\ pending[w].call = "add_brand"
          /\ IF InValues(pending[w].brand, pending[w].df)
             THEN /\ result' = Returned("add_brand", FALSE, "is already in the blocked list.",
                                        pending[w].brand)
                  /\ UNCHANGED <<stored_brands, succeeded>>
             ELSE /\ stored_brands' = Append(pending[w].df, Str(pending[w].brand))
                  /\ result' = Returned("add_brand", TRUE, "has been added to the blocked list.",
                                        pending[w].brand)
                  /\ succeeded' = Append(succeeded, pending[w].brand)
          /\ pending' = Without(w)
    /\ UNCHANGED <<interleaved, WriterFrame>>

\* lines 111-116: the uploaded frame has the column, the file is read
BulkBrandsRead ==
    /\ pc = "store"
    /\ Len(stored_brands) < MaxEntries
    /\ \E w \in Writers \ Reading : \E upload \in Uploads :
          /\ upload.has_column
          /\ pending' = (w :> Held("bulk_upload_brands", ReadColumn(stored_brands), <<>>, upload))
                        @@ pending
    /\ interleaved' = (interleaved \/ Reading # {})
    /\ UNCHANGED <<stored_brands, result, succeeded, WriterFrame>>

\* lines 118-126: the merge with the frame read, and the write
BulkBrandsWrite ==
    /\ pc = "store"
    /\ \E w \in Reading :
          /\ pending[w].call = "bulk_upload_brands"
          /\ stored_brands' = MergedKeys(pending[w].df, pending[w].upload)
          /\ result' = bulk_upload_brands(pending[w].upload)
          /\ pending' = Without(w)
    /\ UNCHANGED <<succeeded, interleaved, WriterFrame>>

NextWriters ==
    \/ AddBrandBlank
    \/ AddBrandRead
    \/ AddBrandWrite
    \/ BulkBrandsRead
    \/ BulkBrandsWrite

SpecWriters == InitStore /\ [][NextWriters]_vars

(***************************************************************************)
(* read_excel_file (excel_utils.py 6-61) and the upload loop of app.py     *)
(* (245-283).  A file is readable or not and holds sheets; a sheet has a   *)
(* name, its column names in order and its rows, each a function from the  *)
(* column names to cells.                                                  *)
(***************************************************************************)
Sheet(name, cols, rows) == [name |-> name, cols |-> cols, rows |-> rows]
ExcelFile(sheets) == [readable |-> TRUE, sheets |-> sheets]
CorruptFile == [readable |-> FALSE, sheets |-> <<>>]

\* lines 17-32: the mappings in the order they are tried, each a sequence of
\* <<source column, canonical column>>
column_mappings ==
    << << <<"Product Details", "TITLE">>, <<"Brand", "BRAND">>, <<"Product ID", "SKU">>,
          <<"UPC Code", "UPC/ISBN">>, <<"Price ", "COST_PRICE">> >>,
       << <<"TITLE", "TITLE">>, <<"Brand", "BRAND">>, <<"SKU", "SKU">>,
          <<"UPC/ISBN", "UPC/ISBN">>, <<"COST_PRICE", "COST_PRICE">> >> >>

\* the source columns of a mapping (mapping.keys())
Keys(mapping) == { mapping[i][1] : i \in DOMAIN mapping }

\* line 37
MappingFits(sheet, mapping) == \A col \in Keys(mapping) : col \in Range(sheet.cols)

\* lines 39-40: the mapping's columns, selected in the mapping's order and renamed
SelectedData(sheet, mapping) ==
    DataFrame([i \in DOMAIN mapping |-> mapping[i][2]],
              [r \in DOMAIN sheet.rows |-> r - 1],
              [r \in DOMAIN sheet.rows |->
                  [c \in { mapping[i][2] : i \in DOMAIN mapping } |->
                      sheet.rows[r][mapping[CHOOSE i \in DOMAIN mapping : mapping[i][2] = c][1]]]])

RECURSIVE TryMappings_LastFirst(_, _)
\* mutant: the mappings are tried from the last to the first
TryMappings_LastFirst(sheet, i) ==
    LET k == Len(column_mappings) + 1 - i
    IN  IF i > Len(column_mappings) THEN None
        ELSE IF MappingFits(sheet, column_mappings[k])
             THEN Some(SelectedData(sheet, column_mappings[k]))
             ELSE TryMappings_LastFirst(sheet, i + 1)

RECURSIVE TryMappings(_, _)
\* lines 35-42: the frame of the first mapping from position i on that fits
\* the sheet, None when none fits (the for ... else branch)
TryMappings(sheet, i) ==
    IF i > Len(column_mappings) THEN None
    ELSE IF MappingFits(sheet, column_mappings[i])
         THEN Some(SelectedData(sheet, column_mappings[i]))
         ELSE TryMappings(sheet, i + 1)

\* lines 45-52: the columns of any mapping the sheet lacks
missing_cols(sheet) ==
    UNION { { col \in Keys(column_mappings[i]) : col \notin Range(sheet.cols) } :
              i \in DOMAIN column_mappings }

\* the messages: what they are about and the columns they name
Message(kind, about, cols) == [kind |-> kind, about |-> about, cols |-> cols]

RECURSIVE ConcatRows(_)
\* the rows of the frames, one after the other
ConcatRows(frames) ==
    IF frames = <<>> THEN <<>> ELSE Head(frames).data \o ConcatRows(Tail(frames))

\* pd.concat(frames, ignore_index=True) of frames with the same columns
Concatenated(frames) ==
    DataFrame(frames[1].cols,
              [i \in DOMAIN ConcatRows(frames) |-> i - 1],
              ConcatRows(frames))

RECURSIVE ReadSheets(_, _, _)
\* lines 12-58: the loop over the sheets from position i on, frames being
\* what the sheets before gave; the result is [df, error]
ReadSheets(sheets, i, frames) ==
    IF i > Len(sheets)
    THEN IF frames = <<>>
         THEN [df |-> None, error |-> Some(Message("No valid data found in any sheet", "", {}))]
         ELSE [df |-> Some(Concatenated(frames)), error |-> None]
    ELSE IF IsNone(TryMappings(sheets[i], 1))
         THEN [df |-> None,
               error |-> Some(Message("Required columns not found in sheet",
                                      sheets[i].name, missing_cols(sheets[i])))]
         ELSE ReadSheets(sheets, i + 1, Append(frames, Val(TryMappings(sheets[i], 1))))

\* the function: [df, error], one of them None
read_excel_file(file) ==
    IF ~file.readable
    THEN [df |-> None, error |-> Some(Message("Error reading file", "", {}))]
    ELSE ReadSheets(file.sheets, 1, <<>>)

\* app.py 266-269, on what read_excel_file returned
Collected(frames, r) == IF IsNone(r.error) THEN Append(frames, Val(r.df)) ELSE frames
Shown(messages, idx, r) ==
    IF IsNone(r.error) THEN messages ELSE Append(messages, [file |-> idx, error |-> Val(r.error)])

\* app.py 257-283: one turn of the loop over the uploaded files; after the
\* last file the frames collected are combined, if there are any
ReadFile ==
    /\ pc = "reading"
    /\ file_idx < Len(uploaded_files)
    /\ file_idx' = file_idx + 1
    /\ all_data' = Collected(all_data, read_excel_file(uploaded_files[file_idx + 1]))
    /\ reported' = Shown(reported, file_idx + 1, read_excel_file(uploaded_files[file_idx + 1]))
    /\ IF file_idx + 1 < Len(uploaded_files)
       THEN UNCHANGED <<pc, dfs>>
       ELSE IF all_data' # <<>>
            THEN pc' = "raw" /\ dfs' = Concatenated(all_data')
            ELSE pc' = "idle" /\ UNCHANGED dfs
    /\ UNCHANGED <<wvars, shipping_legend, svars, processed_df, processed_twice, error,
                   lvars, fvars, uploaded_files, xvars, avars, cvars, mvars, kvars, gvars>>

(***************************************************************************)
(* The sheets read_excel_file is checked on: every set of columns out of   *)
(* the source columns of both mappings and one more, each sheet with one   *)
(* row whose cells carry the name of their column; and files of two sheets.*)
(***************************************************************************)
SourceColumns ==
    <<"Product Details", "Brand", "Product ID", "UPC Code", "Price ",
      "TITLE", "SKU", "UPC/ISBN", "COST_PRICE", "Notes">>

TaggedSheet(name, S) ==
    Sheet(name, SelectSeq(SourceColumns, LAMBDA c : c \in S), << [c \in S |-> Str(<<c>>)] >>)

HeliumColumns == Keys(column_mappings[1])
CanonicalColumns == Keys(column_mappings[2])

TwoSheetFiles ==
    { ExcelFile(<<TaggedSheet("Sheet1", A), TaggedSheet("Sheet2", B)>>) :
        A, B \in { HeliumColumns, CanonicalColumns, HeliumColumns \cup CanonicalColumns,
                   HeliumColumns \ {"Price "}, {"Notes"} } }

ReadFiles ==
    { ExcelFile(<<TaggedSheet("Sheet1", S)>>) : S \in SUBSET Range(SourceColumns) }
        \cup TwoSheetFiles \cup {CorruptFile}

InitRead ==
    /\ pc = "reading"
    /\ uploaded_files \in { <<f>> : f \in ReadFiles }
    /\ file_idx = 0
    /\ all_data = <<>>
    /\ reported = <<>>
    /\ worksheet = <<>>
    /\ FilesIdle
    /\ shipping_legend = None
    /\ title = None
    /\ weight = None
    /\ raised = FALSE
    /\ shipping_cost = None
    /\ TablesIdle
    /\ FilterIdle
    /\ StoreEmpty

NextRead == ReadFile

SpecRead == InitRead /\ [][NextRead]_vars

(***************************************************************************)
(* A processing run (app.py 118-126 and 245-337): the legend is loaded,    *)
(* the uploaded files are read, the frames combined, processed, filtered,  *)
(* measured and shown.                                                     *)
(***************************************************************************)
\* app.py 118-126: the legend, None when the file cannot be read or lacks a
\* required column
LegendFiles == {"unreadable", "lacks a column", "valid"}
LoadLegend(f) == IF f = "valid" THEN Some(TwoBands) ELSE None

\* app.py 293-299: the metrics; line 298 reads combined_df["RETAIL PRICE"]
MetricsError(df) == IF HasCol(df, "RETAIL PRICE") THEN None ELSE Some("KeyError")

\* app.py 294-296 and 300-312: the figures of the summary
MetricsSummary(frames, df, brands, products) ==
    [total_input_listings |-> NRows(Concatenated(frames)),
     total_output_listings |-> NRows(df),
     total_duplicates_removed |-> NRows(Concatenated(frames)) - NRows(df) - (brands + products),
     brands_removed |-> brands,
     products_removed |-> products]

Metrics ==
    /\ pc = "filtered"
    /\ error' = MetricsError(combined_df)
    /\ pc' = IF IsNone(MetricsError(combined_df)) THEN "displayed" ELSE "failed"
    /\ metrics' = IF IsNone(MetricsError(combined_df))
                  THEN Some(MetricsSummary(all_data, combined_df, brands_removed, products_removed))
                  ELSE metrics
    /\ UNCHANGED <<wvars, shipping_legend, svars, dfs, processed_df, processed_twice,
                   lvars, fvars, uvars, xvars, avars, cvars, kvars, gvars>>

\* the sheets of the runs of the model, one row each
HeliumSheet(name, row) ==
    Sheet(name, <<"Product Details", "Brand", "Product ID", "UPC Code", "Price ">>,
          << ("Product Details" :> row["TITLE"]) @@ ("Brand" :> row["BRAND"])
             @@ ("Product ID" :> row["SKU"]) @@ ("UPC Code" :> row["UPC/ISBN"])
             @@ ("Price " :> row["COST_PRICE"]) >>)
CanonicalSheet(name, row) ==
    Sheet(name, <<"TITLE", "Brand", "SKU", "UPC/ISBN", "COST_PRICE">>,
          << ("TITLE" :> row["TITLE"]) @@ ("Brand" :> row["BRAND"])
             @@ ("SKU" :> row["SKU"]) @@ ("UPC/ISBN" :> row["UPC/ISBN"])
             @@ ("COST_PRICE" :> row["COST_PRICE"]) >>)
\* a sheet without a price column: no mapping fits it
PricelessSheet(name, row) ==
    Sheet(name, <<"Product Details", "Brand", "Product ID", "UPC Code">>,
          << ("Product Details" :> row["TITLE"]) @@ ("Brand" :> row["BRAND"])
             @@ ("Product ID" :> row["SKU"]) @@ ("UPC Code" :> row["UPC/ISBN"]) >>)

Cost100 == Str(<<"$","1",".","0","0">>)
CostAbc == Str(<<"a","b","c">>)
RowPlain   == RawRow(Str(T12oz), Acme, Str(<<"1">>), Upc123, Cost450)
RowNoUnit  == RawRow(Str(Tx),    Acme, Str(<<"9">>), NaN,    Cost450)
RowCheap   == RawRow(Str(T4oz),  Acme, Str(<<"9">>), Upc123, Cost100)
RowBadCost == RawRow(Str(T12oz), Acme, Str(<<"1">>), Upc123, CostAbc)

RunFiles ==
    { ExcelFile(<<HeliumSheet("Sheet1", RowPlain)>>),
      ExcelFile(<<CanonicalSheet("Sheet1", RowNoUnit)>>),
      ExcelFile(<<HeliumSheet("Sheet1", RowCheap), CanonicalSheet("Sheet2", RowNoUnit)>>),
      ExcelFile(<<HeliumSheet("Sheet1", RowPlain), PricelessSheet("Sheet2", RowCheap)>>),
      ExcelFile(<<HeliumSheet("Sheet1", RowBadCost)>>),
      CorruptFile }

MaxFiles == 2

InitRun ==
    /\ pc = "reading"
    /\ uploaded_files \in UNION { [1..n -> RunFiles] : n \in 1..MaxFiles }
    /\ shipping_legend \in { LoadLegend(f) : f \in LegendFiles }
    /\ file_idx = 0
    /\ all_data = <<>>
    /\ reported = <<>>
    /\ worksheet = <<>>
    /\ FilesIdle
    /\ title = None
    /\ weight = None
    /\ raised = FALSE
    /\ shipping_cost = None
    /\ TablesIdle
    /\ FilterIdle
    /\ blocked_brands \in BlockedBrandStores
    /\ blocked_product_ids \in BlockedIdStores

(***************************************************************************)
(* create_excel_export (excel_utils.py 77-213).  A row of the worksheet is *)
(* its fill, the values df.to_excel wrote and the formulas that replaced   *)
(* some of them, by column; a formula is its kind and the cells it refers  *)
(* to, each a column letter and a row number.                              *)
(***************************************************************************)
\* line 101: column_indices.get(col), 0 standing for None
ColumnIndex(df, col) == IF HasCol(df, col) THEN IndexOf(df.cols, col) ELSE 0

RECURSIVE get_column_letter(_)
\* lines 207-213
get_column_letter(col_num) ==
    IF col_num = 0 THEN <<>>
    ELSE get_column_letter((col_num - 1) \div 26) \o <<UpperLetters[((col_num - 1) % 26) + 1]>>

CellRef(letter, row_idx) == [col |-> letter, row |-> row_idx]
Formula(kind, refs) == [kind |-> kind, refs |-> refs]

\* line 153: a missing value is written as an empty cell
is_missing_weight(r) ==
    IsNull(r["ITEM WEIGHT (pounds)"]) \/ r["ITEM WEIGHT (pounds)"] = Str(<<>>)

\* lines 154-156 (prices in cents)
has_low_retail_price(df, r) ==
    /\ HasCol(df, "RETAIL PRICE")
    /\ r["RETAIL PRICE"].k = "num"
    /\ NumOf(r["RETAIL PRICE"]) < 1000

\* mutant: the low price is looked at first
Fill_LowPriceFirst(df, r) ==
    IF has_low_retail_price(df, r) THEN "orange"
    ELSE IF is_missing_weight(r) THEN "red"
    ELSE "none"

\* lines 159-164
Fill(df, r) ==
    IF is_missing_weight(r) THEN "red"
    ELSE IF has_low_retail_price(df, r) THEN "orange"
    ELSE "none"

\* lines 173-175
ShippingFormula(df, row_idx) ==
    IF ColumnIndex(df, "SHIPPING COST") # 0
    THEN "SHIPPING COST" :>
            Formula("VLOOKUP",
                    <<CellRef(get_column_letter(ColumnIndex(df, "ITEM WEIGHT (pounds)")), row_idx)>>)
    ELSE <<>>

\* line 178
PricesHaveFormulas(df) ==
    /\ ColumnIndex(df, "RETAIL PRICE") # 0
    /\ ColumnIndex(df, "COST_PRICE") # 0
    /\ ColumnIndex(df, "HANDLING COST") # 0
    /\ ColumnIndex(df, "SHIPPING COST") # 0

\* lines 179-189
RetailFormula(df, row_idx) ==
    "RETAIL PRICE" :>
        Formula("MARKUP",
                <<CellRef(get_column_letter(ColumnIndex(df, "COST_PRICE")), row_idx),
                  CellRef(get_column_letter(ColumnIndex(df, "HANDLING COST")), row_idx),
                  CellRef(get_column_letter(ColumnIndex(df, "SHIPPING COST")), row_idx)>>)

\* mutant: the minimum price refers to the shipping cost column
MinFormula_J(df, row_idx) ==
    IF ColumnIndex(df, "MIN PRICE") # 0
    THEN "MIN PRICE" :> Formula("SAME", <<CellRef(<<"J">>, row_idx)>>)
    ELSE <<>>

\* lines 192-194: =K{row_idx}
MinFormula(df, row_idx) ==
    IF ColumnIndex(df, "MIN PRICE") # 0
    THEN "MIN PRICE" :> Formula("SAME", <<CellRef(<<"K">>, row_idx)>>)
    ELSE <<>>

\* lines 197-199: =IF(L{row_idx}<>"", ROUND(L{row_idx}*1.35, 2),"")
MaxFormula(df, row_idx) ==
    IF ColumnIndex(df, "MAX PRICE") # 0
    THEN "MAX PRICE" :> Formula("MARKUP", <<CellRef(<<"L">>, row_idx)>>)
    ELSE <<>>

\* lines 171-199: the formulas of the row at row_idx, by column
Formulas(df, r, row_idx) ==
    IF ~is_missing_weight(r) THEN <<>>
    ELSE IF PricesHaveFormulas(df)
         THEN ShippingFormula(df, row_idx) @@ RetailFormula(df, row_idx)
              @@ MinFormula(df, row_idx) @@ MaxFormula(df, row_idx)
         ELSE ShippingFormula(df, row_idx)

\* lines 85-199: the data rows of the worksheet; row 1 holds the headers
create_excel_export(df) ==
    <<>> \o [i \in DOMAIN df.data |->
                [fill |-> Fill(df, df.data[i]),
                 values |-> df.data[i],
                 formulas |-> Formulas(df, df.data[i], i + 1)]]

\* app.py 320-323: the export button
Export ==
    /\ pc = "displayed"
    /\ worksheet' = create_excel_export(combined_df)
    /\ pc' = "exported"
    /\ UNCHANGED <<wvars, shipping_legend, svars, tvars, lvars, fvars, uvars, avars, cvars, mvars, kvars, gvars>>

NextRun == ReadFile \/ Process \/ FilterData \/ Metrics \/ Export

SpecRun == InitRun /\ [][NextRun]_vars

\* the tables the export is checked on: the columns process_dataframes
\* leaves with a legend, in its order, and rows with and without a weight
\* and a retail price
ExportCols ==
    RawCols \o <<"HANDLING COST", "QUANTITY", "ITEM LOCATION", "ITEM WEIGHT (pounds)",
                 "SHIPPING COST", "RETAIL PRICE", "MIN PRICE", "MAX PRICE">>

ExportRow(w, retail) ==
    RawRow(Str(Tx), Acme, Str(<<"1">>), Str(ZFill(<<"1","2","3">>, UpcWidth)), Num(450))
    @@ ("HANDLING COST" :> Num(HandlingCost)) @@ ("QUANTITY" :> Num(100))
    @@ ("ITEM LOCATION" :> Str(<<"W","A","L","M","A","R","T">>))
    @@ ("ITEM WEIGHT (pounds)" :> w) @@ ("SHIPPING COST" :> NaN)
    @@ ("RETAIL PRICE" :> retail) @@ ("MIN PRICE" :> retail)
    @@ ("MAX PRICE" :> IF IsNull(retail) THEN NaN ELSE Num(Markup(NumOf(retail))))

ExportRows ==
    { ExportRow(w, retail) : w \in {NaN, Num(112)},
                             retail \in {NaN, Num(911), Num(1000), Num(1721)} }

ExportTables ==
    { DataFrame(ExportCols, [i \in DOMAIN rows |-> i - 1], rows) :
        rows \in UNION { [1..n -> ExportRows] : n \in 1..MaxRows } }

InitExport ==
    /\ pc = "displayed"
    /\ combined_df \in ExportTables
    /\ shipping_legend = Some(TwoBands)
    /\ brands_removed = 0
    /\ products_removed = 0
    /\ title = None
    /\ weight = None
    /\ raised = FALSE
    /\ shipping_cost = None
    /\ TablesIdle
    /\ RunIdle
    /\ StoreEmpty

NextExport == Export

SpecExport == InitExport /\ [][NextExport]_vars

(***************************************************************************)
(* TutorialGuide (tutorial.py 8-13 and 77-129): the two values it keeps in *)
(* the session state and the buttons that change them.  A button exists    *)
(* only in a script run that renders it.                                   *)
(***************************************************************************)
\* line 84: len(content) - 1, content having the keys 0..4 (lines 17-75)
max_steps == 4

MaxClicks == 8

\* lines 122-129: the toggle button is always rendered
Toggle ==
    /\ pc = "tutorial"
    /\ Len(clicks) < MaxClicks
    /\ tutorial_active' = ~tutorial_active
    /\ tutorial_step' = 0
    /\ clicks' = Append(clicks, "Toggle")
    /\ UNCHANGED <<pc, wvars, shipping_legend, svars, tvars, lvars, fvars, uvars, xvars,
                   avars, cvars, mvars, kvars>>

\* mutant: the button is rendered at every step
Previous_Always ==
    /\ pc = "tutorial"
    /\ Len(clicks) < MaxClicks
    /\ tutorial_active
    /\ tutorial_step' = tutorial_step - 1
    /\ clicks' = Append(clicks, "Previous")
    /\ UNCHANGED <<pc, wvars, shipping_legend, svars, tvars, lvars, fvars, uvars, xvars,
                   avars, cvars, mvars, kvars, tutorial_active>>

\* lines 79-80 and 101-105
Previous ==
    /\ pc = "tutorial"
    /\ Len(clicks) < MaxClicks
    /\ tutorial_active
    /\ tutorial_step > 0
    /\ tutorial_step' = tutorial_step - 1
    /\ clicks' = Append(clicks, "Previous")
    /\ UNCHANGED <<pc, wvars, shipping_legend, svars, tvars, lvars, fvars, uvars, xvars,
                   avars, cvars, mvars, kvars, tutorial_active>>

\* lines 79-80 and 110-114
NextStep ==
    /\ pc = "tutorial"
    /\ Len(clicks) < MaxClicks
    /\ tutorial_active
    /\ tutorial_step < max_steps
    /\ tutorial_step' = tutorial_step + 1
    /\ clicks' = Append(clicks, "Next")
    /\ UNCHANGED <<pc, wvars, shipping_legend, svars, tvars, lvars, fvars, uvars, xvars,
                   avars, cvars, mvars, kvars, tutorial_active>>

\* lines 79-80 and 115-118
Finish ==
    /\ pc = "tutorial"
    /\ Len(clicks) < MaxClicks
    /\ tutorial_active
    /\ ~(tutorial_step < max_steps)
    /\ tutorial_active' = FALSE
    /\ clicks' = Append(clicks, "Finish")
    /\ UNCHANGED <<pc, wvars, shipping_legend, svars, tvars, lvars, fvars, uvars, xvars,
                   avars, cvars, mvars, kvars, tutorial_step>>

InitTutorial ==
    /\ pc = "tutorial"
    /\ shipping_legend = None
    /\ title = None
    /\ weight = None
    /\ raised = FALSE
    /\ shipping_cost = None
    /\ TablesIdle
    /\ FilterIdle
    /\ RunIdle
    /\ StoreEmpty

NextTutorial == Toggle \/ Previous \/ NextStep \/ Finish

SpecTutorial == InitTutorial /\ [][NextTutorial]_vars

(***************************************************************************)
(* Claims about the weight extractor, stated on the text of the title      *)
(***************************************************************************)
\* s is written as a number: digits, optionally a point and digits
IsNumeral(s) ==
    LET d == DigitRun(s, 1)
    IN  /\ d >= 1
        /\ \/ d = Len(s)
           \/ /\ At(s, d + 1) = "."
              /\ Len(s) > d + 1
              /\ DigitRun(s, d + 2) = Len(s) - d - 1

\* the unit spellings written right after position j, whitespace allowed between
UnitsAfter(t, j) ==
    { u \in Range(UnitAlternatives) :
        \E p \in (j + 1)..(Len(t) + 1) :
            /\ \A q \in (j + 1)..(p - 1) : IsSpace(t[q])
            /\ LitAt(t, p, u) }

\* the places <<i, j>> where a number is immediately followed by an ounce unit
NumbersBeforeUnit(t) ==
    UNION { { <<i, j>> : j \in { j \in i..Len(t) : /\ IsNumeral(Slice(t, i, j))
                                                   /\ UnitsAfter(t, j) # {} } }
            : i \in {i \in DOMAIN t : IsDigit(t[i])} }

\* the first such number
FirstNumberBeforeUnit(t) ==
    LET S == NumbersBeforeUnit(t)
    IN  CHOOSE ij \in S : \A o \in S : ij[1] < o[1] \/ (ij[1] = o[1] /\ ij[2] >= o[2])

\* the allowance the claim gives: 10 if the unit text contains "fl oz", else 6
ClaimAllowanceAt(t, j) ==
    IF \E u \in UnitsAfter(t, j) : Contains(u, <<"f","l"," ","o","z">>) THEN 10 ELSE 6
ClaimAllowance(t) == ClaimAllowanceAt(t, FirstNumberBeforeUnit(t)[2])

\* the pack sizes written at position i as the whole words "<K> pack" or "pack of <K>"
PackSizesAt(t, i) ==
    LET d  == DigitRun(t, i)
        p1 == i + d + SpaceRun(t, i + d)
        p2 == i + Len(PackOf) + SpaceRun(t, i + Len(PackOf))
    IN  IF ~WordBoundary(t, i) THEN {}
        ELSE (IF d >= 1 /\ LitAt(t, p1, PackWord) /\ ~IsWord(At(t, p1 + Len(PackWord)))
              THEN {Slice(t, i, i + d - 1)} ELSE {})
             \cup
             (IF LitAt(t, i, PackOf) /\ DigitRun(t, p2) >= 1
              THEN {Slice(t, p2, p2 + DigitRun(t, p2) - 1)} ELSE {})

\* K of the claim: the first pack size of the title, 1 when it has none
ClaimPackSize(t) ==
    LET at == {i \in DOMAIN t : PackSizesAt(t, i) # {}}
    IN  IF at = {} THEN 1
        ELSE LET i == CHOOSE x \in at : \A y \in at : x <= y
             IN  DigitsValue(CHOOSE k \in PackSizesAt(t, i) : TRUE)

\* round(((N + a) x K) / 16, 2), in hundredths of a pound
ClaimWeight(t) ==
    LET ij == FirstNumberBeforeUnit(t)
        N  == FloatOf(Slice(t, ij[1], ij[2]))
    IN  Round2((N.num + ClaimAllowanceAt(t, ij[2]) * N.den) * ClaimPackSize(t), N.den * 16)

\* C1: when the title contains a number N immediately followed (optional
\* whitespace) by an ounce unit, the result is round(((N + a) x K) / 16, 2)
\* pounds: N the first such number, a = 10 if the unit text contains "fl oz" and
\* 6 otherwise, K the first pack size ("<K> pack", "pack of <K>"), 1 if none.
C1_WeightFormula ==
    (pc = "extracted" /\ ~IsNone(title) /\ NumbersBeforeUnit(Val(title)) # {})
        => weight = Some(ClaimWeight(Val(title)))

\* a fluid-ounce title with a pack size above 1 has been extracted
C1_Witness ==
    /\ pc = "extracted"
    /\ ~IsNone(title)
    /\ NumbersBeforeUnit(Val(title)) # {}
    /\ ClaimAllowance(Val(title)) = 10
    /\ ClaimPackSize(Val(title)) > 1
    /\ weight = Some(ClaimWeight(Val(title)))

\* C10: a title with no recognisable ounce unit, an empty title and an absent
\* (non-string) title all give null, and no exception leaves the function.
C10_NoUnitIsNull ==
    pc = "extracted" =>
        /\ ~raised
        /\ (IsNone(title) \/ NumbersBeforeUnit(Val(title)) = {}) => IsNone(weight)

\* the absent title has been through the function
C10_Witness ==
    /\ pc = "extracted"
    /\ IsNone(title)
    /\ IsNone(weight)
    /\ ~raised

\* a title with text but no unit has been through the function
C10_WitnessText ==
    /\ pc = "extracted"
    /\ ~IsNone(title)
    /\ Len(Val(title)) > 0
    /\ NumbersBeforeUnit(Val(title)) = {}
    /\ IsNone(weight)

(***************************************************************************)
(* Claims about the shipping cost resolver                                 *)
(***************************************************************************)
\* the bands of the legend that contain the weight, both bounds inclusive
MatchingBands(w, legend) == {i \in DOMAIN legend : legend[i].min <= w /\ w <= legend[i].max}

\* C2: a null weight gives null; otherwise the cost of the first band, in
\* table order, with min <= weight <= max is returned (the earlier band on a
\* shared boundary), and a weight inside no band gives null.
C2_FirstBandWins ==
    pc = "resolved" =>
        LET legend == Val(shipping_legend)
        IN  IF IsNone(weight) THEN IsNone(shipping_cost)
            ELSE LET M == MatchingBands(Val(weight), legend)
                 IN  IF M = {} THEN IsNone(shipping_cost)
                     ELSE shipping_cost = Some(legend[CHOOSE i \in M : \A j \in M : i <= j].cost)

\* weight 1.0 on the boundary shared by (0, 1, 5.00) and (1, 2, 7.50) costs 5.00
C2_Witness ==
    /\ pc = "resolved"
    /\ shipping_legend = Some(<<Band(0, 100, 500), Band(100, 200, 750)>>)
    /\ weight = Some(100)
    /\ shipping_cost = Some(500)

\* weight 3.0 is inside no band of that table and gives null
C2_WitnessOutside ==
    /\ pc = "resolved"
    /\ shipping_legend = Some(<<Band(0, 100, 500), Band(100, 200, 750)>>)
    /\ weight = Some(300)
    /\ IsNone(shipping_cost)

\* the band table is in ascending order of its minimum weights
SortedByMin(legend) == \A i, j \in DOMAIN legend : i < j => legend[i].min <= legend[j].min
\* the cost a cell of the sheet shows, none when it is empty or shows #N/A
CostShown(f) == IF f.shown = "cost" THEN Some(f.cost) ELSE None

\* C24: for a band table sorted by minimum weight and any weight entered into
\* a missing-weight row, the cost the exported lookup formula shows equals
\* the cost calculate_shipping_cost returns for that weight, also on a
\* boundary two bands share and above the last band's maximum.
C24_FormulaAgrees ==
    (pc = "recalculated" /\ SortedByMin(Val(shipping_legend))) =>
        CostShown(Val(formula_cost)) = shipping_cost

(***************************************************************************)
(* Claims about the table assembler                                        *)
(***************************************************************************)
Rows(df) == DOMAIN df.data
\* the row of the input table an output row comes from (its index label)
Source(df, a) == dfs.data[df.index[a] + 1]

\* C4: retail_price = round((cost_price + shipping_cost + handling_cost) x 1.35, 2)
\* when the three are non-null, and null when any of them is null, in
\* particular when the weight is null or outside every band; never computed
\* from a subset of the operands (not at all without a band table).
C4_RetailPrice ==
    pc = "processed" =>
        IF IsNone(shipping_legend) THEN ~HasCol(processed_df, "RETAIL PRICE")
        ELSE \A a \in Rows(processed_df) :
                LET r == processed_df.data[a]
                    c == r["COST_PRICE"]
                    s == r["SHIPPING COST"]
                    h == r["HANDLING COST"]
                    w == r["ITEM WEIGHT (pounds)"]
                IN  /\ (~IsNull(c) /\ ~IsNull(s) /\ ~IsNull(h)) =>
                           r["RETAIL PRICE"] =
                               Num(RoundHalfEven((NumOf(c) + NumOf(s) + NumOf(h)) * 135, 100))
                    /\ (IsNull(c) \/ IsNull(s) \/ IsNull(h)) => IsNull(r["RETAIL PRICE"])
                    /\ (IsNull(w) \/ MatchingBands(NumOf(w), Val(shipping_legend)) = {}) =>
                           IsNull(r["RETAIL PRICE"])

\* a priced row (4.50 + 7.50 + 0.75 gives 17.21) beside a row with a cost, no
\* shipping cost and no retail price
C4_Witness ==
    /\ pc = "processed"
    /\ ~IsNone(shipping_legend)
    /\ \E a \in Rows(processed_df) : processed_df.data[a]["RETAIL PRICE"] = Num(1721)
    /\ \E a \in Rows(processed_df) :
          /\ ~IsNull(processed_df.data[a]["COST_PRICE"])
          /\ IsNull(processed_df.data[a]["SHIPPING COST"])
          /\ IsNull(processed_df.data[a]["RETAIL PRICE"])

\* C5: every row with null weight comes after every row with non-null weight,
\* and within each group the rows keep their input order (stable partition).
C5_StablePartition ==
    pc = "processed" =>
        \A a, b \in Rows(processed_df) :
            a < b =>
                /\ ~(MissingWeight(processed_df, a) /\ ~MissingWeight(processed_df, b))
                /\ (MissingWeight(processed_df, a) = MissingWeight(processed_df, b)) =>
                       processed_df.index[a] < processed_df.index[b]

\* C6: no two output rows are equal in all canonical fields; rows equal after
\* normalization and pricing collapse to one, the first in input order.
C6_NoDuplicates ==
    pc = "processed" =>
        LET P == Priced(dfs, shipping_legend)
        IN  /\ \A a, b \in Rows(processed_df) :
                   a # b => processed_df.data[a] # processed_df.data[b]
            /\ \A a \in Rows(processed_df) :
                   processed_df.data[a] = P.data[processed_df.index[a] + 1]
            /\ Range(processed_df.index) =
                   { i - 1 : i \in { i \in Rows(P) : \A j \in 1..(i - 1) : P.data[j] # P.data[i] } }

\* two input rows that differ only by a markup token, and a third, give two
\* output rows, the survivor being the first
C6_Witness ==
    /\ pc = "processed"
    /\ NRows(dfs) = 3
    /\ dfs.data[1] # dfs.data[2]
    /\ Priced(dfs, shipping_legend).data[1] = Priced(dfs, shipping_legend).data[2]
    /\ NRows(processed_df) = 2
    /\ 0 \in Range(processed_df.index)
    /\ 1 \notin Range(processed_df.index)

\* C7: process_dataframes applied to its own output returns the same rows,
\* the same field values and the same row order.
C7_Idempotent ==
    /\ pc = "reprocessed" =>
          /\ processed_twice.cols = processed_df.cols
          /\ processed_twice.data = processed_df.data
    /\ pc = "failed" => processed_df = EmptyDF

\* C8: a present UPC becomes its digits left-padded with zeros to 12
\* characters; a missing one becomes the empty string, not a string of zeros.
C8_UpcNormalized ==
    pc = "processed" =>
        \A a \in Rows(processed_df) :
            LET u == Source(processed_df, a)["UPC/ISBN"]
            IN  processed_df.data[a]["UPC/ISBN"] =
                    (IF IsNull(u) THEN Str(<<>>)
                     ELSE Str([i \in 1..(12 - Len(u.v)) |-> "0"] \o u.v))

\* C16: for every record the minimum price equals the retail price, and the
\* maximum price is round(retail_price x 1.35, 2) when the retail price is
\* non-null and null when it is null (the three columns exist together, with a
\* band table only).
C16_MinMaxPrice ==
    pc = "processed" =>
        IF ~HasCol(processed_df, "RETAIL PRICE")
        THEN ~HasCol(processed_df, "MIN PRICE") /\ ~HasCol(processed_df, "MAX PRICE")
        ELSE \A a \in Rows(processed_df) :
                LET r == processed_df.data[a]
                IN  /\ r["MIN PRICE"] = r["RETAIL PRICE"]
                    /\ IF IsNull(r["RETAIL PRICE"])
                       THEN IsNull(r["MAX PRICE"])
                       ELSE r["MAX PRICE"] =
                               Num(RoundHalfEven(NumOf(r["RETAIL PRICE"]) * 135, 100))

\* a row priced 17.21 with maximum 23.23 beside a row without retail price
C16_Witness ==
    /\ pc = "processed"
    /\ HasCol(processed_df, "RETAIL PRICE")
    /\ \E a \in Rows(processed_df) :
          /\ processed_df.data[a]["RETAIL PRICE"] = Num(1721)
          /\ processed_df.data[a]["MIN PRICE"] = Num(1721)
          /\ processed_df.data[a]["MAX PRICE"] = Num(2323)
    /\ \E a \in Rows(processed_df) :
          /\ IsNull(processed_df.data[a]["RETAIL PRICE"])
          /\ IsNull(processed_df.data[a]["MAX PRICE"])

(***************************************************************************)
(* Claims about the block filter                                           *)
(***************************************************************************)
\* the record's brand, uppercased, equals an uppercased blocked brand
BrandBlocked(r) ==
    /\ r["BRAND"].k = "str"
    /\ \E i \in DOMAIN blocked_brands : UpperStr(r["BRAND"].v) = UpperStr(blocked_brands[i])

\* the record's sku equals a blocked id (compared as trimmed strings)
IdBlocked(r) ==
    /\ r["SKU"].k = "str"
    /\ \E i \in DOMAIN blocked_product_ids : r["SKU"].v = Strip(blocked_product_ids[i])

\* C3: brands_removed counts the input records with a blocked brand,
\* products_removed the records among the remainder with a blocked id (one
\* blocked both ways counts once, as a brand), and the kept records are
\* exactly those matching neither list, in input order.
C3_FilterCounts ==
    pc = "filtered" =>
        LET given == processed_df.data
            kept == { i \in DOMAIN given : ~BrandBlocked(given[i]) /\ ~IdBlocked(given[i]) }
        IN  /\ brands_removed = Cardinality({ i \in DOMAIN given : BrandBlocked(given[i]) })
            /\ products_removed =
                   Cardinality({ i \in DOMAIN given :
                                   ~BrandBlocked(given[i]) /\ IdBlocked(given[i]) })
            /\ \A a \in Rows(combined_df) :
                   ~BrandBlocked(combined_df.data[a]) /\ ~IdBlocked(combined_df.data[a])
            /\ combined_df.index =
                   [a \in 1..Cardinality(kept) |-> processed_df.index[Ascending(kept)[a]]]

\* a record blocked by brand and by id, beside one blocked by id alone
C3_Witness ==
    /\ pc = "filtered"
    /\ \E i \in Rows(processed_df) :
          BrandBlocked(processed_df.data[i]) /\ IdBlocked(processed_df.data[i])
    /\ \E i \in Rows(processed_df) :
          ~BrandBlocked(processed_df.data[i]) /\ IdBlocked(processed_df.data[i])
    /\ brands_removed >= 1
    /\ products_removed >= 1

\* C9: filter_data leaves the table it is given with the same columns and
\* values, and both block lists unchanged.
C9_FilterPure ==
    [][(pc = "processed" /\ pc' = "filtered") =>
          /\ processed_df' = processed_df
          /\ blocked_brands' = blocked_brands
          /\ blocked_product_ids' = blocked_product_ids]_vars

\* C20: the stages of a run are applied in the order normalize, block filter,
\* price, deduplicate, order: the block filter and its removed counts are
\* those of the normalized records, before pricing and before deduplication.
C20_FilterBeforeDedupe ==
    pc = "filtered" =>
        /\ brands_removed =
              filter_data(Normalized(dfs), blocked_brands, blocked_product_ids).brands_removed
        /\ products_removed =
              filter_data(Normalized(dfs), blocked_brands, blocked_product_ids).products_removed

FileRead == uploaded_files[file_idx]
\* the mappings that fit a sheet, by position
Fitting(sheet) ==
    { i \in DOMAIN column_mappings :
        \A j \in DOMAIN column_mappings[i] : column_mappings[i][j][1] \in Range(sheet.cols) }
\* what mapping i makes of a row: the canonical columns, each with the cell
\* of its source column
Renamed(row, i) ==
    [c \in { column_mappings[i][j][2] : j \in DOMAIN column_mappings[i] } |->
        row[column_mappings[i][CHOOSE j \in DOMAIN column_mappings[i] :
                                  column_mappings[i][j][2] = c][1]]]
\* the first fitting mapping (the sheet has one)
FirstFitting(sheet) == CHOOSE i \in Fitting(sheet) : \A j \in Fitting(sheet) : i <= j

\* C13: on a one-sheet file, the first mapping in priority order whose source
\* columns are all present is applied: the frame holds just its columns under
\* their canonical names, with the cells of that mapping's source columns
\* (never those of a later mapping); when no mapping fits, the result is an
\* error naming the missing columns.
C13_FirstSchemeApplied ==
    (file_idx = 1 /\ FileRead.readable /\ Len(FileRead.sheets) = 1) =>
        LET sheet == FileRead.sheets[1]
        IN  IF Fitting(sheet) = {}
            THEN /\ all_data = <<>>
                 /\ Len(reported) = 1
                 /\ reported[1].error.about = sheet.name
                 /\ reported[1].error.cols # {}
                 /\ reported[1].error.cols =
                        { c \in HeliumColumns \cup CanonicalColumns : c \notin Range(sheet.cols) }
            ELSE /\ reported = <<>>
                 /\ Len(all_data) = 1
                 /\ all_data[1].cols = RawCols
                 /\ all_data[1].data =
                        [r \in DOMAIN sheet.rows |-> Renamed(sheet.rows[r], FirstFitting(sheet))]

\* a sheet both mappings fit: the frame holds the cells of the first one
C13_Witness ==
    /\ file_idx = 1
    /\ FileRead.readable
    /\ Len(FileRead.sheets) = 1
    /\ Fitting(FileRead.sheets[1]) = {1, 2}
    /\ Len(all_data) = 1
    /\ all_data[1].data[1]["TITLE"] = Str(<<"Product Details">>)

\* a sheet no mapping fits: an error naming the missing columns
C13_WitnessError ==
    /\ file_idx = 1
    /\ FileRead.readable
    /\ Len(FileRead.sheets) = 1
    /\ Fitting(FileRead.sheets[1]) = {}
    /\ Len(reported) = 1

(***************************************************************************)
(* Claims about a processing run                                           *)
(***************************************************************************)
PriceColumns == {"SHIPPING COST", "RETAIL PRICE", "MIN PRICE", "MAX PRICE"}
\* the table has been shown (and perhaps exported)
OutputProduced == pc \in {"displayed", "exported"}
\* the run is past the block filter and past the metrics
PastMetrics == combined_df # EmptyDF /\ pc # "filtered"

\* C11: when the shipping legend is absent or lacks a required column, a run
\* whose records reach the end of the block filter completes without error
\* and shows the output table, which has no shipping cost, retail price,
\* minimum price or maximum price.
C11_UnpricedRunCompletes ==
    (IsNone(shipping_legend) /\ PastMetrics) =>
        /\ OutputProduced
        /\ IsNone(error)
        /\ \A c \in PriceColumns : ~HasCol(combined_df, c)

\* the fitting sheets of a file that come before a sheet no mapping fits
AcceptedBeforeRejected(file) ==
    { j \in DOMAIN file.sheets :
        /\ Fitting(file.sheets[j]) # {}
        /\ \A k \in 1..j : Fitting(file.sheets[k]) # {}
        /\ \E k \in DOMAIN file.sheets : k > j /\ Fitting(file.sheets[k]) = {} }
\* the rows the frames collected hold
CollectedRows == UNION { Range(all_data[d].data) : d \in DOMAIN all_data }

\* the rows the frames collected hold, one after the other
CollectedRowsInOrder == ConcatRows(all_data)

\* C12: when a sheet matches no mapping, only that sheet is rejected: once the
\* files are read, every row of a sheet accepted before it in the same file
\* is among the rows collected.
C12_AcceptedSheetsKept ==
    (pc # "reading") =>
        \A f \in DOMAIN uploaded_files :
            \A j \in AcceptedBeforeRejected(uploaded_files[f]) :
                \A r \in DOMAIN uploaded_files[f].sheets[j].rows :
                    Renamed(uploaded_files[f].sheets[j].rows[r],
                            FirstFitting(uploaded_files[f].sheets[j])) \in CollectedRows

\* C14: no partial commit: when an error has occurred in the run, in reading
\* a file or later, the run has failed and no output table is produced from
\* the remaining inputs.
C14_NoPartialCommit ==
    /\ (reported # <<>>) => ~OutputProduced
    /\ (~IsNone(error)) => pc = "failed"

\* C23: row accounting: the counts filter_data returns are not negative and
\* kept rows + brands removed + ids removed = rows given to the filter; the
\* duplicates figure of the summary is not negative and input listings =
\* output listings + duplicates removed + brands removed + ids removed.
C23_RowAccounting ==
    /\ (pc \in {"filtered", "displayed", "exported"}) =>
          /\ brands_removed >= 0
          /\ products_removed >= 0
          /\ NRows(combined_df) + brands_removed + products_removed = NRows(processed_df)
    /\ (pc \in {"displayed", "exported"}) =>
          /\ Val(metrics).total_input_listings = Len(CollectedRowsInOrder)
          /\ Val(metrics).total_output_listings = NRows(combined_df)
          /\ Val(metrics).total_duplicates_removed >= 0
          /\ Val(metrics).total_duplicates_removed = NRows(dfs) - NRows(processed_df)
          /\ Val(metrics).total_input_listings =
                Val(metrics).total_output_listings + Val(metrics).total_duplicates_removed
                + brands_removed + products_removed

\* a run that dropped a duplicate, a blocked brand and kept a row
C23_Witness ==
    /\ pc = "displayed"
    /\ Val(metrics).total_duplicates_removed > 0
    /\ brands_removed + products_removed > 0
    /\ NRows(combined_df) < NRows(processed_df)

(***************************************************************************)
(* Claims about the export                                                 *)
(***************************************************************************)
\* the letter of the column where a field of the exported table is
LetterOf(c) ==
    <<UpperLetters[CHOOSE k \in DOMAIN combined_df.cols : combined_df.cols[k] = c]>>
\* the cell of a field in a row of the worksheet
OwnCell(c, row_idx) == [col |-> LetterOf(c), row |-> row_idx]
NullWeight(r) == IsNull(r["ITEM WEIGHT (pounds)"])
LowPrice(r) == ~IsNull(r["RETAIL PRICE"]) /\ NumOf(r["RETAIL PRICE"]) < 1000

\* C18: each data row of the export has one highlight at most: the
\* missing-weight one when its weight is null, even with a retail price below
\* 10; the low-price one when its weight is not null and its retail price is
\* below 10; none otherwise.
C18_Highlight ==
    (pc = "exported") =>
        /\ DOMAIN worksheet = DOMAIN combined_df.data
        /\ \A i \in DOMAIN worksheet :
              worksheet[i].fill =
                  IF NullWeight(combined_df.data[i]) THEN "red"
                  ELSE IF LowPrice(combined_df.data[i]) THEN "orange"
                  ELSE "none"

\* a row without weight and with a low price is red, another row is orange
C18_Witness ==
    /\ pc = "exported"
    /\ \E i \in DOMAIN worksheet :
          /\ NullWeight(combined_df.data[i])
          /\ LowPrice(combined_df.data[i])
          /\ worksheet[i].fill = "red"
    /\ \E i \in DOMAIN worksheet : worksheet[i].fill = "orange"

\* C19: exactly the rows with a null weight have their shipping cost, retail
\* price, minimum price and maximum price replaced by formulas; each formula
\* refers to cells of its own row, at the columns where the weight, the cost,
\* the handling cost, the shipping cost, the retail price and the minimum
\* price are; the other rows keep their values.
C19_Formulas ==
    (pc = "exported") =>
        \A i \in DOMAIN worksheet :
            /\ worksheet[i].values = combined_df.data[i]
            /\ IF NullWeight(combined_df.data[i])
               THEN /\ DOMAIN worksheet[i].formulas = PriceColumns
                    /\ worksheet[i].formulas["SHIPPING COST"].refs =
                          <<OwnCell("ITEM WEIGHT (pounds)", i + 1)>>
                    /\ worksheet[i].formulas["RETAIL PRICE"].refs =
                          <<OwnCell("COST_PRICE", i + 1), OwnCell("HANDLING COST", i + 1),
                            OwnCell("SHIPPING COST", i + 1)>>
                    /\ worksheet[i].formulas["MIN PRICE"].refs = <<OwnCell("RETAIL PRICE", i + 1)>>
                    /\ worksheet[i].formulas["MAX PRICE"].refs = <<OwnCell("MIN PRICE", i + 1)>>
               ELSE worksheet[i].formulas = <<>>

\* a table whose second row has no weight and whose first row has one
C19_Witness ==
    /\ pc = "exported"
    /\ Len(worksheet) >= 2
    /\ ~NullWeight(combined_df.data[1])
    /\ NullWeight(combined_df.data[2])
    /\ worksheet[1].formulas = <<>>
    /\ worksheet[2].formulas["MIN PRICE"].refs = << [col |-> <<"K">>, row |-> 3] >>

(***************************************************************************)
(* Claims about the block list store                                       *)
(***************************************************************************)
\* the entry a cell of the store stands for, as text
EntryText(c) ==
    IF c.k = "str" THEN c.v
    ELSE IF c.k = "num" THEN IntToText(NumOf(c) \div 100)
    ELSE <<>>
\* the list a file holds
Listed(cells) == [i \in DOMAIN cells |-> EntryText(cells[i])]
\* what append-one is to do with a list and an entry
AppendOne(before, after, ret) ==
    IF IsBlank(ret.about) \/ Strip(ret.about) \in Range(Listed(before))
    THEN ~ret.ok /\ ret.message # "" /\ Listed(after) = Listed(before)
    ELSE ret.ok /\ ret.message # "" /\ Listed(after) = Append(Listed(before), Strip(ret.about))

\* C15: append-one (add_brand, add_product_id): an entry that is empty or
\* blank, or whose trimmed value is in the list already, returns failure with
\* a message and leaves the stored list as it was; any other entry appends
\* one entry holding the trimmed value and returns success with a message.
C15_AppendOne ==
    [][ IF Val(result').call = "add_brand"
        THEN AppendOne(stored_brands, stored_brands', Val(result'))
        ELSE AppendOne(stored_product_ids, stored_product_ids', Val(result')) ]_vars

(***************************************************************************)
(* Claims about the tutorial                                               *)
(***************************************************************************)
LastClick == clicks'[Len(clicks')]

\* C25: in every state the clicks reach, tutorial_step is within 0..4, a key
\* of the step content; Toggle resets the step to 0 and flips the active
\* flag; Previous happens only at a step above 0, Next only at a step below
\* 4, Finish only at step 4, where it deactivates the tutorial.
C25_TutorialSteps ==
    /\ [](tutorial_step \in 0..4)
    /\ [][ /\ LastClick = "Toggle" =>
                tutorial_step' = 0 /\ tutorial_active' = ~tutorial_active
           /\ LastClick = "Previous" =>
                tutorial_step > 0 /\ tutorial_step' = tutorial_step - 1
           /\ LastClick = "Next" =>
                tutorial_step < 4 /\ tutorial_step' = tutorial_step + 1
           /\ LastClick = "Finish" =>
                tutorial_step = 4 /\ tutorial_active /\ ~tutorial_active' ]_vars

\* the tutorial was walked to its last step and finished
C25_Witness ==
    /\ clicks = <<"Toggle", "Next", "Next", "Next", "Next", "Finish">>
    /\ tutorial_step = 4
    /\ ~tutorial_active

(***************************************************************************)
(* Claims about the block lists under append-one and bulk-merge            *)
(***************************************************************************)
\* a stored entry that is blank: an empty cell or blank text
BlankEntry(c) == c.k = "nan" \/ (c.k = "str" /\ IsBlank(c.v))
\* no blank entry and no two entries with the same key
WellKept(cells) ==
    /\ \A i \in DOMAIN cells : ~BlankEntry(cells[i])
    /\ \A i, j \in DOMAIN cells : i # j => EntryText(cells[i]) # EntryText(cells[j])
IsBulk(ret) == ret.call \in {"bulk_upload_brands", "bulk_upload_product_ids"}

\* C21: after any sequence of append-one and bulk-merge operations from an
\* empty block list, the stored list holds no blank entry and no two entries
\* with the same key; a bulk-merge keeps every entry already stored, a
\* product id with the reason stored for it.
C21_ListWellKept ==
    /\ [](WellKept(stored_brands) /\ WellKept(stored_product_ids))
    /\ [][ IsBulk(Val(result')) =>
             /\ \A i \in DOMAIN stored_brands :
                   EntryText(stored_brands[i]) \in Range(Listed(stored_brands'))
             /\ \A i \in DOMAIN stored_product_ids :
                   \E j \in DOMAIN stored_product_ids' :
                       /\ EntryText(stored_product_ids'[j]) = EntryText(stored_product_ids[i])
                       /\ EntryText(stored_reasons'[j]) = EntryText(stored_reasons[i]) ]_vars

(***************************************************************************)
(* Claims about writers on the block lists                                 *)
(***************************************************************************)
\* what a read of the brands file returns, as a list of entries
LaterRead == Listed(ReadColumn(stored_brands))

\* C22: the write operations read, then write, with no lock.  When they run
\* one after the other, every entry whose add reported success is in every
\* later read.
C22_SerializedAddsKept ==
    (~interleaved) => \A i \in DOMAIN succeeded : succeeded[i] \in Range(LaterRead)

\* C22, second half: both writers read before either wrote, both adds
\* reported success, and one of the two entries is stored
C22_LostUpdate ==
    /\ interleaved
    /\ Reading = {}
    /\ Len(succeeded) = 2
    /\ succeeded[1] # succeeded[2]
    /\ Len(stored_brands) = 1
    /\ succeeded[1] \notin Range(LaterRead)
    /\ succeeded[2] \in Range(LaterRead)

====
